---------------------------- MODULE Spec2Model ----------------------------
(***************************************************************************)
(* A model of quarry's NBT module (src/quarry/types/nbt.py) and of the     *)
(* brigadier StringReader it parses with:                                  *)
(*   - RegionFile: the sector allocator of save_chunk, with load_chunk     *)
(*     and list_chunks, run whole and as the steps of two writers;         *)
(*   - the tag tree: binary codec, logical equality, is_subset, update;    *)
(*   - the path engine: has_path, at_path, count_multipath,                *)
(*     iter_multipath_pair;                                                *)
(*   - Mojangson: to_mojangson and the parser used by the path filters.    *)
(* Strings are sequences of one-character strings.  A function that can    *)
(* raise returns a record whose field exc names the exception ("none"      *)
(* when it returned normally).                                             *)
(***************************************************************************)
EXTENDS Integers, Sequences, FiniteSets, TLC

VARIABLES
    locations,   \* region file, first 4 KB page: slot index -> packed entry
    timestamps,  \* region file, second 4 KB page: slot index -> timestamp
    data,        \* region file, sectors 2..: slot index -> what is left of its blob
    file_size,   \* region file length in 4096-byte sectors
    clock,       \* time.time(); one tick per save
    saved,       \* slot index -> the chunk save_chunk was last given for it
    last,        \* the last save_chunk call: its chunk, slot and placement
    inp,         \* the arguments of a call of a pure operation
    op,          \* the operation called on inp ("none" before the call)
    out,         \* what the call returned
    writers      \* writer -> its position in save_chunk and its local variables

regionVars == <<locations, timestamps, data, file_size, clock, saved, last>>
callVars == <<inp, op, out>>
vars == <<locations, timestamps, data, file_size, clock, saved, last, inp, op, out, writers>>

\* ------------------------------------------------------------------------
\* Small helpers
\* ------------------------------------------------------------------------

Min(a, b) == IF a <= b THEN a ELSE b

Max(a, b) == IF a >= b THEN a ELSE b

\* A value bound to a name for the rest of a computation, as an assignment
\* to a local variable binds it.
With(value, rest(_)) == rest(value)

Range(s) == {s[i] : i \in 1..Len(s)}

\* The elements of a finite set of integers, in increasing order.
RECURSIVE Ascending(_)
Ascending(S) ==
    IF S = {} THEN <<>>
    ELSE LET m == CHOOSE x \in S : \A y \in S : x <= y
         IN <<m>> \o Ascending(S \ {m})

\* ------------------------------------------------------------------------
\* RegionFile
\* ------------------------------------------------------------------------

\* Bounds of the region model.
MaxSaves == 3

MaxPayload == 1

\* Program constants.
SectorBytes == 4096

GridSize == 32

CountRadix == 256

BlobHeaderBytes == 5

\* The chunk co-ordinates (xPos, zPos) of the chunks that are saved; 33 lies
\* outside the region and shares slot (1, 0) with 1.
XCoords == {0, 1, 2, 33}

ZCoords == {0}

\* len(zlib.compress(...)) of the chunks that are saved: blobs of 1, 2 and
\* 257 sectors.
CompressedLens == {100, 5000, 1048572}

Chunks ==
    [xPos : XCoords, zPos : ZCoords, payload : 1..MaxPayload, zlen : CompressedLens]

NoChunk == [xPos |-> -1, zPos |-> -1, payload |-> 0, zlen |-> 0]

\* chunk_x = xPos & 0x1f
chunk_coord(pos) == pos % GridSize

\* The index with the two co-ordinates exchanged.
slot_index_transposed(chunk_x, chunk_z) == GridSize * chunk_x + chunk_z

\* 32 * chunk_z + chunk_x: the index of a slot in both header tables.
slot_index(chunk_x, chunk_z) == GridSize * chunk_z + chunk_x

\* The slots the saved chunks can fall in; every other entry of the header
\* stays zero.
Slots == {slot_index(chunk_coord(x), chunk_coord(z)) : x \in XCoords, z \in ZCoords}

\* entry >> 8
entry_offset(entry) == entry \div CountRadix

\* entry & 0xFF
entry_length(entry) == entry % CountRadix

\* (chunk_offset << 8) | (chunk_length & 0xFF)
pack_entry(chunk_offset, chunk_length) ==
    chunk_offset * CountRadix + (chunk_length % CountRadix)

\* chunk = Buffer.pack('IB', len(chunk), 2) + chunk
\* chunk_length = 1 + (len(chunk) - 1) // 4096
chunk_length(chunk) == 1 + ((BlobHeaderBytes + chunk.zlen) - 1) \div SectorBytes

\* Tuple order of Python: by offset, then by length.
extent_le(a, b) == a[1] < b[1] \/ (a[1] = b[1] /\ a[2] <= b[2])

RECURSIVE insert_sorted(_, _)
insert_sorted(e, s) ==
    IF s = <<>> THEN <<e>>
    ELSE IF extent_le(e, Head(s)) THEN <<e>> \o s
    ELSE <<Head(s)>> \o insert_sorted(e, Tail(s))

\* extents.sort()
RECURSIVE sort_extents(_)
sort_extents(s) ==
    IF s = <<>> THEN <<>>
    ELSE insert_sorted(Head(s), sort_extents(Tail(s)))

\* "Load extents": the header extent, then every slot with a nonzero offset
\* except the slot being rewritten, sorted, then the sentinel.
RECURSIVE scan_extents(_, _, _)
scan_extents(table, idxs, own) ==
    IF idxs = <<>> THEN <<>>
    ELSE LET idx == Head(idxs)
             entry == table[idx]
             rest == scan_extents(table, Tail(idxs), own)
         IN IF entry_offset(entry) > 0 /\ idx # own
            THEN <<(<<entry_offset(entry), entry_length(entry)>>)>> \o rest
            ELSE rest

sentinel_extent(sorted, n) ==
    <<sorted[Len(sorted)][1] + sorted[Len(sorted)][2] + n, 0>>

load_extents(table, own, n) ==
    LET sorted == sort_extents(<<(<<0, 2>>)>> \o scan_extents(table, Ascending(Slots), own))
    IN sorted \o <<sentinel_extent(sorted, n)>>

\* Placement after the last extent, whatever gaps lie before it.
first_fit_at_end(extents, n) ==
    extents[Len(extents) - 1][1] + extents[Len(extents) - 1][2]

\* "Compute new extent": the first idx whose gap holds n sectors.
gap_fits(extents, idx, n) ==
    (extents[idx + 1][1] - (extents[idx][1] + extents[idx][2])) >= n

first_fit(extents, n) ==
    LET idx == CHOOSE i \in 1..(Len(extents) - 1) :
                   /\ gap_fits(extents, i, n)
                   /\ \A j \in 1..(i - 1) : ~gap_fits(extents, j, n)
    IN extents[idx][1] + extents[idx][2]

\* What a write of n sectors at offset off leaves of the blob prefix d.
after_write(d, off, n) ==
    IF d.off + d.n <= off \/ off + n <= d.off THEN d
    ELSE IF off <= d.off THEN [d EXCEPT !.n = 0]
    ELSE [d EXCEPT !.n = off - d.off]

\* What truncating the file to size sectors leaves of the blob prefix d.
after_truncate(d, size) ==
    [d EXCEPT !.n = Max(0, Min(d.n, size - d.off))]

NoData == [off |-> 0, n |-> 0, chunk |-> NoChunk]

NoSave == [chunk |-> NoChunk, slot |-> -1, offset |-> 0, length |-> 0,
           was_empty |-> FALSE, end_of_others |-> 0]

\* The two writers that share the file.
Writers == {1, 2}

\* A writer that is in no save_chunk call; raced records whether any of
\* its calls began while the other writer was inside one.
NoCall == [pc |-> "idle", chunk |-> NoChunk, slot |-> -1, length |-> 0,
           offset |-> 0, size |-> 0, raced |-> FALSE]

RegionInit ==
    /\ locations = [s \in Slots |-> 0]
    /\ timestamps = [s \in Slots |-> 0]
    /\ data = [s \in Slots |-> NoData]
    /\ file_size = 2
    /\ clock = 0
    /\ saved = [s \in Slots |-> NoChunk]
    /\ last = NoSave
    /\ writers = [w \in Writers |-> NoCall]

save_chunk(chunk) ==
    LET slot == slot_index(chunk_coord(chunk.xPos), chunk_coord(chunk.zPos))
        n == chunk_length(chunk)
        extents == load_extents(locations, slot, n)
        chunk_offset == first_fit(extents, n)
        size == extents[Len(extents)][1]
    IN /\ clock < MaxSaves
       /\ locations' = [locations EXCEPT ![slot] = pack_entry(chunk_offset, n)]
       /\ timestamps' = [timestamps EXCEPT ![slot] = clock + 1]
       /\ data' = [s \in Slots |->
                     after_truncate(
                         IF s = slot
                         THEN [off |-> chunk_offset, n |-> n, chunk |-> chunk]
                         ELSE after_write(data[s], chunk_offset, n),
                         size)]
       /\ file_size' = size
       /\ clock' = clock + 1
       /\ saved' = [saved EXCEPT ![slot] = chunk]
       /\ last' = [chunk |-> chunk, slot |-> slot, offset |-> chunk_offset,
                   length |-> n, was_empty |-> (locations[slot] = 0),
                   end_of_others |-> size - n]

\* The header entry at index idx; only the slots of Slots are ever written.
location_entry(idx) == IF idx \in Slots THEN locations[idx] ELSE 0

\* load_chunk: None for a zero offset; otherwise the tree decoded from the
\* sectors [offset, offset + length), "Error" when they do not hold the
\* whole blob (zlib.decompress or Buffer.unpack raises).
load_chunk(chunk_x, chunk_z) ==
    LET idx == slot_index(chunk_x, chunk_z)
        entry == location_entry(idx)
        d == data[idx]
        read == Min(entry_length(entry), d.n)
    IN IF entry_offset(entry) = 0 THEN [exc |-> "none", found |-> FALSE, chunk |-> NoChunk]
       ELSE IF d.chunk # NoChunk /\ read >= chunk_length(d.chunk)
            THEN [exc |-> "none", found |-> TRUE, chunk |-> d.chunk]
            ELSE [exc |-> "Error", found |-> FALSE, chunk |-> NoChunk]

\* list_chunks: the (chunk_x, chunk_z) of every nonzero offset, z-major.
RECURSIVE list_slots(_)
list_slots(idxs) ==
    IF idxs = <<>> THEN <<>>
    ELSE LET idx == Head(idxs)
             rest == list_slots(Tail(idxs))
         IN IF entry_offset(locations[idx]) # 0
            THEN <<(<<idx % GridSize, idx \div GridSize>>)>> \o rest
            ELSE rest

list_chunks == list_slots(Ascending(Slots))

SaveChunk == \E chunk \in Chunks : save_chunk(chunk) /\ UNCHANGED <<inp, op, out, writers>>

RegionNext == SaveChunk

CallIdle == inp = "none" /\ op = "none" /\ out = "none"

RegionFileInit == RegionInit /\ CallIdle

SpecRegion == RegionFileInit /\ [][RegionNext]_vars

\* ------------------------------------------------------------------------
\* RegionFile: two writers on one file
\* ------------------------------------------------------------------------
\* save_chunk takes no lock and is five file operations: the read of the
\* location table (with the placement computed from it), the write of the
\* location entry, of the timestamp, of the blob, and the truncation.  Two
\* writers take these steps in any order.

\* The chunks the writers save: one or 257 sectors, in slot 0 or 1.
WriterChunks == {c \in Chunks : c.xPos \in {0, 1} /\ c.payload = 1 /\ c.zlen \in {100, 1048572}}

in_flight(w) == writers[w].pc # "idle"

\* "Load extents" and "Compute new extent"; the other writer, if it is in
\* a call, is in one for a different slot.
LoadExtents(w) ==
    \E chunk \in WriterChunks :
        LET slot == slot_index(chunk_coord(chunk.xPos), chunk_coord(chunk.zPos))
            n == chunk_length(chunk)
            extents == load_extents(locations, slot, n)
        IN /\ ~in_flight(w)
           /\ clock < MaxSaves
           /\ \A v \in Writers \ {w} : in_flight(v) => writers[v].slot # slot
           /\ writers' = [writers EXCEPT ![w] =
                  [pc |-> "header", chunk |-> chunk, slot |-> slot, length |-> n,
                   offset |-> first_fit(extents, n),
                   size |-> extents[Len(extents)][1],
                   raced |-> writers[w].raced \/ \E v \in Writers \ {w} : in_flight(v)]]
           /\ clock' = clock + 1
           /\ UNCHANGED <<locations, timestamps, data, file_size, saved, last, inp, op, out>>

\* "Write extent header"
WriteExtentHeader(w) ==
    /\ writers[w].pc = "header"
    /\ locations' = [locations EXCEPT
                       ![writers[w].slot] = pack_entry(writers[w].offset, writers[w].length)]
    /\ writers' = [writers EXCEPT ![w].pc = "timestamp"]
    /\ UNCHANGED <<timestamps, data, file_size, clock, saved, last, inp, op, out>>

\* "Write timestamp header"
WriteTimestampHeader(w) ==
    /\ writers[w].pc = "timestamp"
    /\ timestamps' = [timestamps EXCEPT ![writers[w].slot] = clock]
    /\ writers' = [writers EXCEPT ![w].pc = "chunk"]
    /\ UNCHANGED <<locations, data, file_size, clock, saved, last, inp, op, out>>

\* "Write chunk": a write past the end of the file lengthens it.
WriteChunk(w) ==
    /\ writers[w].pc = "chunk"
    /\ data' = [s \in Slots |->
                  IF s = writers[w].slot
                  THEN [off |-> writers[w].offset, n |-> writers[w].length,
                        chunk |-> writers[w].chunk]
                  ELSE after_write(data[s], writers[w].offset, writers[w].length)]
    /\ file_size' = Max(file_size, writers[w].offset + writers[w].length)
    /\ saved' = [saved EXCEPT ![writers[w].slot] = writers[w].chunk]
    /\ writers' = [writers EXCEPT ![w].pc = "truncate"]
    /\ UNCHANGED <<locations, timestamps, clock, last, inp, op, out>>

\* "Truncate file", at the sentinel this writer computed; the call returns.
TruncateFile(w) ==
    /\ writers[w].pc = "truncate"
    /\ file_size' = writers[w].size
    /\ data' = [s \in Slots |-> after_truncate(data[s], writers[w].size)]
    /\ writers' = [writers EXCEPT ![w] = [NoCall EXCEPT !.raced = writers[w].raced]]
    /\ UNCHANGED <<locations, timestamps, clock, saved, last, inp, op, out>>

WritersNext ==
    \E w \in Writers :
        \/ LoadExtents(w)
        \/ WriteExtentHeader(w)
        \/ WriteTimestampHeader(w)
        \/ WriteChunk(w)
        \/ TruncateFile(w)

SpecWriters == RegionFileInit /\ [][WritersNext]_vars

\* ------------------------------------------------------------------------
\* RegionFile: restore_chunk
\* ------------------------------------------------------------------------
\* old_region is an older copy of this file, held in inp: its location
\* table and what its sectors hold of each blob ("none" until the copy is
\* taken).  out is what the call returned, with the slot it was for and
\* the file as it was before the call.

Restored(exc, result, slot) ==
    [exc |-> exc, result |-> result, slot |-> slot,
     before |-> [locations |-> locations, timestamps |-> timestamps,
                 data |-> data, file_size |-> file_size]]

\* restore_chunk: False for a zero entry of old_region; BufferUnderrun when
\* the sectors read through old_region's entry (entry & 0xFF of them) do
\* not hold the whole blob; otherwise the blob is placed and written as
\* save_chunk does it, with chunk_length the count read from old_region.
restore_chunk(old_region, chunk_x, chunk_z) ==
    LET slot == slot_index(chunk_x, chunk_z)
        entry == old_region.locations[slot]
        n == entry_length(entry)
        d == old_region.data[slot]
        extents == load_extents(locations, slot, n)
        chunk_offset == first_fit(extents, n)
        size == extents[Len(extents)][1]
    IN /\ op' = "restore_chunk"
       /\ IF entry = 0
          THEN /\ out' = Restored("none", FALSE, slot)
               /\ UNCHANGED regionVars
          ELSE IF d.chunk = NoChunk \/ Min(n, d.n) < chunk_length(d.chunk)
          THEN /\ out' = Restored("BufferUnderrun", FALSE, slot)
               /\ UNCHANGED regionVars
          ELSE /\ out' = Restored("none", TRUE, slot)
               /\ locations' = [locations EXCEPT ![slot] = pack_entry(chunk_offset, n)]
               /\ timestamps' = [timestamps EXCEPT ![slot] = clock + 1]
               /\ data' = [s \in Slots |->
                             after_truncate(
                                 IF s = slot
                                 THEN [off |-> chunk_offset, n |-> n, chunk |-> d.chunk]
                                 ELSE after_write(data[s], chunk_offset, n),
                                 size)]
               /\ file_size' = size
               /\ clock' = clock + 1
               /\ saved' = [saved EXCEPT ![slot] = d.chunk]
               /\ last' = [chunk |-> d.chunk, slot |-> slot, offset |-> chunk_offset,
                           length |-> n, was_empty |-> (locations[slot] = 0),
                           end_of_others |-> size - n]

\* No copy of the file has been taken.
NoRegion == [locations |-> <<>>, data |-> <<>>]

\* The file is copied; the copy is the old region of a later restore.
KeepOldRegion ==
    /\ op = "none" /\ inp = NoRegion
    /\ inp' = [locations |-> locations, data |-> data]
    /\ UNCHANGED <<locations, timestamps, data, file_size, clock, saved, last, op, out, writers>>

SaveBeforeRestore == op = "none" /\ SaveChunk

RestoreChunk ==
    /\ op = "none" /\ inp # NoRegion
    /\ \E x \in XCoords, z \in ZCoords :
           restore_chunk(inp, chunk_coord(x), chunk_coord(z))
    /\ UNCHANGED <<inp, writers>>

RestoreNext == SaveBeforeRestore \/ KeepOldRegion \/ RestoreChunk

RestoreInit == RegionInit /\ inp = NoRegion /\ op = "none" /\ out = "none"

SpecRestore == RestoreInit /\ [][RestoreNext]_vars


\* ------------------------------------------------------------------------
\* RegionFile: properties
\* ------------------------------------------------------------------------

live_slots == {s \in Slots : locations[s] # 0}

extent_start(s) == entry_offset(locations[s])

extent_end(s) == entry_offset(locations[s]) + entry_length(locations[s])

RECURSIVE sum_lengths(_)
sum_lengths(S) ==
    IF S = {} THEN 0
    ELSE LET s == CHOOSE x \in S : TRUE
         IN entry_length(locations[s]) + sum_lengths(S \ {s})

RECURSIVE max_end(_)
max_end(S) ==
    IF S = {} THEN 2
    ELSE LET s == CHOOSE x \in S : TRUE
         IN Max(extent_end(s), max_end(S \ {s}))

recorded_disjoint ==
    \A s, t \in live_slots :
        s # t => (extent_end(s) <= extent_start(t) \/ extent_end(t) <= extent_start(s))

recorded_after_header == \A s \in live_slots : extent_start(s) >= 2

loads_saved(s) ==
    load_chunk(s % GridSize, s \div GridSize) =
        [exc |-> "none", found |-> TRUE, chunk |-> saved[s]]

\* C1: after any sequence of save_chunk calls the recorded sector ranges of
\* the live slots are pairwise disjoint and lie after the two header
\* sectors, and every chunk other than the one just written still loads to
\* the tree last saved for it.
C1_OthersStillLoad ==
    /\ recorded_disjoint
    /\ recorded_after_header
    /\ \A s \in live_slots \ {last.slot} : loads_saved(s)

\* C2: after save_chunk of a chunk whose slot had a zero location entry,
\* list_chunks contains the slot's (x, z) and load_chunk(x, z) returns the
\* chunk that was saved.
C2_NewChunkLoads ==
    (last.slot # -1 /\ last.was_empty) =>
        /\ <<last.slot % GridSize, last.slot \div GridSize>> \in Range(list_chunks)
        /\ loads_saved(last.slot)
        /\ saved[last.slot] = last.chunk

\* C3: after every save_chunk the file size in sectors never
\* exceeds 2 plus the sum of the sector counts of the live slots.
C3_SizeWithinLiveSectors == file_size <= 2 + sum_lengths(live_slots)

\* C18: after every save_chunk the file ends exactly at the end of the
\* last occupied sector: its length in sectors is the largest offset +
\* count over the header extent (0, 2) and the live slots.
C18_FileEndsAtLastExtent == file_size = max_end(live_slots)

\* The slots other than the one last written that have a location entry.
other_slots == live_slots \ {last.slot}

\* Whether sectors [s, s + n) share a sector with the extent recorded for
\* slot t.
intersects(s, n, t) == \E k \in s..(s + n - 1) : extent_start(t) <= k /\ k < extent_end(t)

free_at(s, n) == \A t \in other_slots : ~intersects(s, n, t)

settled_slots == {s \in live_slots : \A w \in Writers : writers[w].slot # s}

\* The blob last saved for a settled slot reaches past the end of the file.
blob_beyond_end ==
    \E s \in settled_slots :
        saved[s] # NoChunk /\ extent_start(s) + chunk_length(saved[s]) > file_size

\* C20: when every save_chunk call runs alone (none begins while the other
\* writer is inside a call), no state is reached in which two slots'
\* recorded sector ranges overlap or a saved blob lies beyond the point
\* the file was truncated to.
C20_SerialWritersAreSafe ==
    (\A w \in Writers : ~writers[w].raced) => (recorded_disjoint /\ ~blob_beyond_end)

\* C20, the racing half: both writers read the location table before
\* either wrote its entry, and the two slots' recorded ranges overlap.
C20_RaceWitness ==
    /\ \A w \in Writers : ~in_flight(w)
    /\ \E w \in Writers : writers[w].raced
    /\ ~recorded_disjoint

\* C25: the sector count that save_chunk records in the slot's location
\* entry is the number of 4096-byte sectors the blob occupies, also when
\* that number is 256 or more.
C25_RecordedCountIsBlobSectors ==
    last.slot # -1 => entry_length(locations[last.slot]) = chunk_length(last.chunk)

\* A blob of fewer than 256 sectors was saved and its count recorded.
C25_SmallBlobRecorded ==
    /\ last.slot # -1 /\ chunk_length(last.chunk) < CountRadix
    /\ entry_length(locations[last.slot]) = chunk_length(last.chunk)

\* C26: save_chunk for slot (x, z) changes only the location entry and the
\* timestamp entry of slot 32 * z + x; the entries of every other slot are
\* the same before and after the call.
C26_OnlyOwnHeaderEntries ==
    [][\A s \in Slots :
           s # GridSize * (last'.chunk.zPos % GridSize) + (last'.chunk.xPos % GridSize)
               => locations'[s] = locations[s] /\ timestamps'[s] = timestamps[s]]_vars

\* A save was made while another slot had its entries set.
C26_OtherEntriesSet ==
    /\ last.slot # -1
    /\ \E t \in Slots \ {last.slot} : locations[t] # 0 /\ timestamps[t] # 0

\* C21: restore_chunk(old_region, x, z) returns False and leaves this file
\* unchanged when old_region's entry for (x, z) is zero; otherwise it
\* returns True, this file then holds for (x, z) the whole payload that
\* old_region held, placed at the lowest free offset as save_chunk places
\* it, and its extent overlaps no other slot's extent.
C21_RestoreCopiesThePayload ==
    op = "restore_chunk" =>
        IF inp.locations[out.slot] = 0
        THEN /\ out.exc = "none" /\ out.result = FALSE
             /\ out.before = [locations |-> locations, timestamps |-> timestamps,
                              data |-> data, file_size |-> file_size]
        ELSE /\ out.exc = "none" /\ out.result = TRUE
             /\ data[out.slot].chunk = inp.data[out.slot].chunk
             /\ data[out.slot].n >= chunk_length(data[out.slot].chunk)
             /\ last.slot = out.slot
             /\ last.offset >= 2
             /\ free_at(last.offset, last.length)
             /\ \A s \in 2..(last.offset - 1) : ~free_at(s, last.length)

\* A restore that copied a blob to another place than it had in this file.
C21_RestoredElsewhere ==
    /\ op = "restore_chunk" /\ out.exc = "none" /\ out.result
    /\ out.before.locations[out.slot] # 0
    /\ locations[out.slot] # out.before.locations[out.slot]

\* ------------------------------------------------------------------------
\* Tags
\* ------------------------------------------------------------------------
\* A tag is [kind, value]: kind is the class name; value is an integer
\* (TagByte .. TagLong), a decimal <<mantissa, exponent>> (TagFloat,
\* TagDouble), a string (TagString), a sequence of unsigned integers (the
\* PackedArray of an array tag), a sequence of tags (TagList) or a sequence
\* of [name, tag] entries with distinct names, in insertion order
\* (the OrderedDict of TagCompound and TagRoot).

IntKinds == {"TagByte", "TagShort", "TagInt", "TagLong"}

FloatKinds == {"TagFloat", "TagDouble"}

DataKinds == IntKinds \cup FloatKinds

ArrayKinds == {"TagByteArray", "TagIntArray", "TagLongArray"}

CompoundKinds == {"TagCompound", "TagRoot"}

Tag(kind, value) == <<kind, value>>

Entry(name, tag) == [name |-> name, tag |-> tag]

\* The bool that TagList.at_path returns for an index out of range.
PyFalse == <<"bool", 0>>

\* _ids: class -> discriminant (TagRoot is not registered; it is only ever
\* the outermost tag).
_ids ==
    [k \in IntKinds \cup FloatKinds \cup ArrayKinds \cup {"TagString", "TagList", "TagCompound"} |->
        CASE k = "TagByte" -> 1 [] k = "TagShort" -> 2 [] k = "TagInt" -> 3
          [] k = "TagLong" -> 4 [] k = "TagFloat" -> 5 [] k = "TagDouble" -> 6
          [] k = "TagByteArray" -> 7 [] k = "TagString" -> 8 [] k = "TagList" -> 9
          [] k = "TagCompound" -> 10 [] k = "TagIntArray" -> 11 [] k = "TagLongArray" -> 12]

\* _kinds: discriminant -> class (0 is type(None)).
_kinds(id) == CHOOSE k \in DOMAIN _ids : _ids[k] = id

\* fmt of a _DataTag, in bytes; width // 8 of an _ArrayTag.
fmt_bytes(kind) ==
    CASE kind = "TagByte" -> 1 [] kind = "TagShort" -> 2 [] kind = "TagInt" -> 4
      [] kind = "TagLong" -> 8 [] kind = "TagByteArray" -> 1
      [] kind = "TagIntArray" -> 4 [] kind = "TagLongArray" -> 8

\* The keys of a compound, in order.
keys(tag) == [i \in 1..Len(tag[2]) |-> tag[2][i].name]

has_key(tag, name) == \E i \in 1..Len(tag[2]) : tag[2][i].name = name

\* self[2][name]
get_key(tag, name) ==
    tag[2][CHOOSE i \in 1..Len(tag[2]) : tag[2][i].name = name].tag

\* A decimal m * 10^e with no trailing zero in m: the value of a float.
RECURSIVE dec_norm(_, _)
dec_norm(m, e) ==
    IF m = 0 THEN <<0, 0>>
    ELSE IF m % 10 = 0 THEN dec_norm(m \div 10, e + 1)
    ELSE <<m, e>>

\* The number a _DataTag holds, as a decimal.
num_value(tag) ==
    IF tag[1] \in FloatKinds THEN dec_norm(tag[2][1], tag[2][2])
    ELSE dec_norm(tag[2], 0)

\* to_obj, with the Python type written out: a number, a str, a list or a
\* dict (a dict has no order, so it is a set of <<name, obj>>).
RECURSIVE to_obj(_)
to_obj(tag) ==
    CASE tag[1] \in DataKinds -> <<"num", num_value(tag)>>
      [] tag[1] = "TagString" -> <<"str", tag[2]>>
      [] tag[1] \in ArrayKinds ->
            <<"list", [i \in 1..Len(tag[2]) |-> <<"num", dec_norm(tag[2][i], 0)>>]>>
      [] tag[1] = "TagList" ->
            <<"list", [i \in 1..Len(tag[2]) |-> to_obj(tag[2][i])]>>
      [] tag[1] \in CompoundKinds ->
            <<"dict", {<<tag[2][i].name, to_obj(tag[2][i].tag)>> :
                         i \in 1..Len(tag[2])}>>
      [] OTHER -> <<"bool", tag[2]>>

\* _Tag.__eq__
tag_eq(a, b) == to_obj(a) = to_obj(b)

\* self[2] == other[2] for a _DataTag or TagString self: numbers
\* compare by value, strings by content, anything else is unequal.
value_eq(a, b) ==
    IF a[1] \in DataKinds /\ b[1] \in DataKinds THEN num_value(a) = num_value(b)
    ELSE IF a[1] = "TagString" /\ b[1] = "TagString" THEN a[2] = b[2]
    ELSE FALSE

RECURSIVE is_subset(_, _)

_ArrayTag_is_subset(self, other) ==
    IF other[1] # self[1] \/ Len(other[2]) # Len(self[2]) THEN FALSE
    ELSE \A i \in 1..Len(self[2]) : self[2][i] = other[2][i]

TagList_is_subset(self, other) ==
    IF other[1] # "TagList" THEN FALSE
    ELSE \A i \in 1..Len(self[2]) :
             \E j \in 1..Len(other[2]) : is_subset(self[2][i], other[2][j])

\* TagCompound.is_subset without the test that the key is in other.
TagCompound_is_subset_no_key_test(self, other) ==
    IF other[1] # "TagCompound" THEN FALSE
    ELSE \A i \in 1..Len(self[2]) :
             has_key(other, self[2][i].name) =>
                 is_subset(self[2][i].tag, get_key(other, self[2][i].name))

TagCompound_is_subset(self, other) ==
    IF other[1] # "TagCompound" THEN FALSE
    ELSE \A i \in 1..Len(self[2]) :
             /\ has_key(other, self[2][i].name)
             /\ is_subset(self[2][i].tag, get_key(other, self[2][i].name))

is_subset(self, other) ==
    CASE self[1] \in ArrayKinds -> _ArrayTag_is_subset(self, other)
      [] self[1] = "TagList" -> TagList_is_subset(self, other)
      [] self[1] \in CompoundKinds -> TagCompound_is_subset(self, other)
      [] OTHER -> value_eq(self, other)

\* ------------------------------------------------------------------------
\* Binary codec
\* ------------------------------------------------------------------------
\* Bytes are integers 0..255.  to_bytes returns [exc, bytes]; from_buff
\* returns [exc, tag, pos], pos being the Buffer's read position.

\* The characters of the model, each with its code point.  The characters
\* that are not printable ASCII go by a name.
CodePoints ==
    << <<"a", 97>>, <<"b", 98>>, <<"d", 100>>, <<"e", 101>>, <<"f", 102>>,
       <<"i", 105>>, <<"l", 108>>, <<"r", 114>>, <<"s", 115>>, <<"t", 116>>, <<"u", 117>>,
       <<"B", 66>>, <<"E", 69>>, <<"I", 73>>, <<"L", 76>>,
       <<"0", 48>>, <<"1", 49>>, <<"2", 50>>, <<"3", 51>>, <<"4", 52>>,
       <<"5", 53>>, <<"6", 54>>, <<"7", 55>>, <<"8", 56>>, <<"9", 57>>,
       <<"-", 45>>, <<"+", 43>>, <<".", 46>>, <<"_", 95>>, <<",", 44>>, <<":", 58>>,
       <<";", 59>>, <<"[", 91>>, <<"]", 93>>, <<"{", 123>>, <<"}", 125>>,
       <<"\"", 34>>, <<"'", 39>>, <<"\\", 92>>, <<" ", 32>>, <<"LF", 10>>,
       <<"NUL", 0>>, <<"E_ACUTE", 233>>, <<"EURO", 8364>>, <<"WAVE", 127754>> >>

Chars == {CodePoints[i][1] : i \in 1..Len(CodePoints)}

ord(c) == CodePoints[CHOOSE i \in 1..Len(CodePoints) : CodePoints[i][1] = c][2]

is_code_point(cp) == \E i \in 1..Len(CodePoints) : CodePoints[i][2] = cp

chr(cp) == CodePoints[CHOOSE i \in 1..Len(CodePoints) : CodePoints[i][2] = cp][1]

\* The n low bytes of v, most significant first (two's complement).
RECURSIVE be_bytes(_, _)
be_bytes(v, n) ==
    IF n = 0 THEN <<>> ELSE be_bytes(v \div 256, n - 1) \o <<v % 256>>

\* Whether a signed field of n bytes holds v (4 and 8 bytes hold every
\* integer of the model).
fits_signed(v, n) ==
    CASE n = 1 -> -128 <= v /\ v <= 127
      [] n = 2 -> -32768 <= v /\ v <= 32767
      [] OTHER -> TRUE

\* Buffer.pack of one signed big-endian integer.
pack_signed(v, n) ==
    IF fits_signed(v, n) THEN [exc |-> "none", bytes |-> be_bytes(v, n)]
    ELSE [exc |-> "struct.error", bytes |-> <<>>]

\* The unsigned big-endian integer in buf[pos+1 .. pos+n].
RECURSIVE be_value(_, _, _)
be_value(buf, pos, n) ==
    IF n = 0 THEN 0 ELSE be_value(buf, pos, n - 1) * 256 + buf[pos + n]

\* The signed big-endian integer in buf[pos+1 .. pos+n].
RECURSIVE be_signed(_, _, _)
be_signed(buf, pos, n) ==
    IF n = 1 THEN (IF buf[pos + 1] >= 128 THEN buf[pos + 1] - 256 ELSE buf[pos + 1])
    ELSE be_signed(buf, pos, n - 1) * 256 + buf[pos + n]

\* encode_modified_utf8 of one character: NUL as C0 80, a character above
\* the BMP as six bytes, ED Ax xx ED Bx xx, cut from the code point's own
\* bits (ED A1 BC ED BC 8A for U+1F30A).
utf8_3(cp) ==
    <<224 + (cp \div 4096), 128 + ((cp \div 64) % 64), 128 + (cp % 64)>>

encode_char(c) ==
    With(ord(c), LAMBDA cp :
      CASE cp = 0 -> <<192, 128>>
        [] cp >= 1 /\ cp < 128 -> <<cp>>
        [] cp >= 128 /\ cp < 2048 -> <<192 + (cp \div 64), 128 + (cp % 64)>>
        [] cp >= 2048 /\ cp < 65536 -> utf8_3(cp)
        [] OTHER -> <<237, 160 + ((cp \div 65536) % 16), 128 + ((cp \div 1024) % 64),
                      237, 176 + ((cp \div 64) % 16), 128 + (cp % 64)>>)

RECURSIVE encode_modified_utf8(_)
encode_modified_utf8(str) ==
    IF str = <<>> THEN <<>>
    ELSE encode_char(Head(str)) \o encode_modified_utf8(Tail(str))

\* decode_modified_utf8 of buf[pos+1 .. end]: [exc, str].  The six-byte
\* form is read back as the inverse of the form encode_char writes.
RECURSIVE decode_modified_utf8(_, _, _)
decode_modified_utf8(buf, pos, end) ==
    IF pos >= end THEN [exc |-> "none", str |-> <<>>]
    ELSE
      LET b == buf[pos + 1]
          n == IF b < 128 THEN 1 ELSE IF b < 224 THEN 2 ELSE 3
          six == /\ pos + 6 <= end
                 /\ b = 237 /\ buf[pos + 2] \div 16 = 10
                 /\ buf[pos + 4] = 237 /\ buf[pos + 5] \div 16 = 11
          used == IF six THEN 6 ELSE n
          cp == CASE six -> (buf[pos + 2] % 16) * 65536 + (buf[pos + 3] % 64) * 1024
                            + (buf[pos + 5] % 16) * 64 + (buf[pos + 6] % 64)
                  [] ~six /\ n = 1 -> b
                  [] ~six /\ n = 2 /\ pos + 2 <= end -> (b % 32) * 64 + (buf[pos + 2] % 64)
                  [] ~six /\ n = 3 /\ pos + 3 <= end ->
                         (b % 16) * 4096 + (buf[pos + 2] % 64) * 64 + (buf[pos + 3] % 64)
                  [] OTHER -> -1
      IN IF ~is_code_point(cp)
         THEN [exc |-> "UnicodeDecodeError", str |-> <<>>]
         ELSE With(decode_modified_utf8(buf, pos + used, end), LAMBDA rest :
                IF rest.exc # "none" THEN rest
                ELSE [exc |-> "none", str |-> <<chr(cp)>> \o rest.str])

\* PackedArray.to_bytes: every value in width // 8 bytes.
RECURSIVE packed_to_bytes(_, _)
packed_to_bytes(values, n) ==
    IF values = <<>> THEN <<>>
    ELSE be_bytes(Head(values), n) \o packed_to_bytes(Tail(values), n)

\* PackedArray.from_bytes: length values of width // 8 bytes.
packed_from_bytes(buf, pos, length, n) ==
    [i \in 1..length |-> be_value(buf, pos + (i - 1) * n, n)]

RECURSIVE to_bytes(_)

\* b"".join(tag.to_bytes() for tag in tags)
RECURSIVE join_to_bytes(_)
join_to_bytes(tags) ==
    IF tags = <<>> THEN [exc |-> "none", bytes |-> <<>>]
    ELSE With(to_bytes(Head(tags)), LAMBDA h :
           IF h.exc # "none" THEN h
           ELSE With(join_to_bytes(Tail(tags)), LAMBDA r :
                  IF r.exc # "none" THEN r
                  ELSE [exc |-> "none", bytes |-> h.bytes \o r.bytes]))

TagString_to_bytes(self) ==
    With(encode_modified_utf8(self[2]), LAMBDA encoded :
      IF Len(encoded) > 65535 THEN [exc |-> "struct.error", bytes |-> <<>>]
      ELSE [exc |-> "none", bytes |-> be_bytes(Len(encoded), 2) \o encoded])

_ArrayTag_to_bytes(self) ==
    With(packed_to_bytes(self[2], fmt_bytes(self[1])), LAMBDA packed :
      [exc |-> "none",
       bytes |-> be_bytes(Len(packed) \div fmt_bytes(self[1]), 4) \o packed])

TagList_to_bytes(self) ==
    With(IF Len(self[2]) > 0 THEN self[2][1] ELSE Tag("TagByte", 0), LAMBDA head :
      With(join_to_bytes(self[2]), LAMBDA body :
        IF body.exc # "none" THEN body
        ELSE [exc |-> "none",
              bytes |-> <<_ids[head[1]]>> \o be_bytes(Len(self[2]), 4) \o body.bytes]))

\* The (discriminant, name, value) triples of a compound's entries.
RECURSIVE entries_to_bytes(_)
entries_to_bytes(entries) ==
    IF entries = <<>> THEN [exc |-> "none", bytes |-> <<>>]
    ELSE With(TagString_to_bytes(Tag("TagString", Head(entries).name)), LAMBDA name :
           IF name.exc # "none" THEN name
           ELSE With(to_bytes(Head(entries).tag), LAMBDA tag :
                  IF tag.exc # "none" THEN tag
                  ELSE With(entries_to_bytes(Tail(entries)), LAMBDA rest :
                         IF rest.exc # "none" THEN rest
                         ELSE [exc |-> "none",
                               bytes |-> <<_ids[Head(entries).tag[1]]>> \o name.bytes
                                         \o tag.bytes \o rest.bytes])))

\* TagCompound.to_bytes that never writes the terminating zero.
TagCompound_to_bytes_no_end(self) == entries_to_bytes(self[2])

TagCompound_to_bytes(self) ==
    With(entries_to_bytes(self[2]), LAMBDA string :
      IF string.exc # "none" THEN string
      ELSE IF Len(self[2]) = 0 \/ self[1] # "TagRoot"
           THEN [exc |-> "none", bytes |-> string.bytes \o <<0>>]
           ELSE string)

to_bytes(tag) ==
    CASE tag[1] \in IntKinds -> pack_signed(tag[2], fmt_bytes(tag[1]))
      [] tag[1] = "TagString" -> TagString_to_bytes(tag)
      [] tag[1] \in ArrayKinds -> _ArrayTag_to_bytes(tag)
      [] tag[1] = "TagList" -> TagList_to_bytes(tag)
      [] tag[1] \in CompoundKinds -> TagCompound_to_bytes(tag)

Decoded(tag, pos) == [exc |-> "none", tag |-> tag, pos |-> pos]

DecodeError(exc) == [exc |-> exc, tag |-> PyFalse, pos |-> 0]

known_id(id) == \E k \in DOMAIN _ids : _ids[k] = id

RECURSIVE from_buff(_, _, _)

_DataTag_from_buff(kind, buf, pos) ==
    IF pos + fmt_bytes(kind) > Len(buf) THEN DecodeError("BufferUnderrun")
    ELSE Decoded(Tag(kind, be_signed(buf, pos, fmt_bytes(kind))), pos + fmt_bytes(kind))

TagString_from_buff(buf, pos) ==
    IF pos + 2 > Len(buf) THEN DecodeError("BufferUnderrun")
    ELSE With(be_value(buf, pos, 2), LAMBDA string_length :
           IF pos + 2 + string_length > Len(buf) THEN DecodeError("BufferUnderrun")
           ELSE With(decode_modified_utf8(buf, pos + 2, pos + 2 + string_length), LAMBDA str :
                  IF str.exc # "none" THEN DecodeError(str.exc)
                  ELSE Decoded(Tag("TagString", str.str), pos + 2 + string_length)))

\* A negative length leaves nothing for PackedArray.from_bytes to read.
_ArrayTag_from_buff(kind, buf, pos) ==
    IF pos + 4 > Len(buf) THEN DecodeError("BufferUnderrun")
    ELSE With(be_signed(buf, pos, 4), LAMBDA length :
           IF length < 0 THEN DecodeError("ValueError")
           ELSE IF length > Len(buf) \/ pos + 4 + length * fmt_bytes(kind) > Len(buf)
           THEN DecodeError("BufferUnderrun")
           ELSE Decoded(Tag(kind, packed_from_bytes(buf, pos + 4, length, fmt_bytes(kind))),
                        pos + 4 + length * fmt_bytes(kind)))

\* [inner_kind.from_buff(buff) for _ in range(array_length)]
RECURSIVE list_from_buff(_, _, _, _)
list_from_buff(inner_kind, buf, pos, array_length) ==
    IF array_length <= 0 THEN [exc |-> "none", tags |-> <<>>, pos |-> pos]
    ELSE With(from_buff(inner_kind, buf, pos), LAMBDA h :
           IF h.exc # "none" THEN [exc |-> h.exc, tags |-> <<>>, pos |-> 0]
           ELSE With(list_from_buff(inner_kind, buf, h.pos, array_length - 1), LAMBDA r :
                  IF r.exc # "none" THEN r
                  ELSE [exc |-> "none", tags |-> <<h.tag>> \o r.tags, pos |-> r.pos]))

TagList_from_buff(buf, pos) ==
    IF pos + 5 > Len(buf) THEN DecodeError("BufferUnderrun")
    ELSE With(be_signed(buf, pos, 1), LAMBDA inner_kind_id :
           With(be_signed(buf, pos + 1, 4), LAMBDA array_length :
             IF ~known_id(inner_kind_id)
             THEN (IF inner_kind_id = 0 /\ array_length <= 0
                   THEN Decoded(Tag("TagList", <<>>), pos + 5)
                   ELSE DecodeError(IF inner_kind_id = 0 THEN "AttributeError"
                                    ELSE "KeyError"))
             ELSE With(list_from_buff(_kinds(inner_kind_id), buf, pos + 5, array_length),
                       LAMBDA r :
                    IF r.exc # "none" THEN DecodeError(r.exc)
                    ELSE Decoded(Tag("TagList", r.tags), r.pos))))

\* value[name] = tag on an OrderedDict: a new name goes last, a known name
\* keeps its place.
set_key(entries, name, tag) ==
    IF \E i \in 1..Len(entries) : entries[i].name = name
    THEN [i \in 1..Len(entries) |->
             IF entries[i].name = name THEN Entry(name, tag) ELSE entries[i]]
    ELSE Append(entries, Entry(name, tag))

\* bool(tag): None is false, a list or an array is false when it is empty
\* (__len__), and every other tag is true.
truth(tag) ==
    /\ tag # Tag("None", 0)
    /\ tag[1] \in ArrayKinds \cup {"TagList"} => tag[2] # <<>>

\* self.value.get(name)
get_or_none(tag, name) == IF has_key(tag, name) THEN get_key(tag, name) ELSE Tag("None", 0)

\* del value[name]
del_key(entries, name) == SelectSeq(entries, LAMBDA e : e.name # name)

RECURSIVE update(_, _)

\* The loop of TagCompound.update over the items of other_tag.
RECURSIVE update_loop(_, _)
update_loop(self, items) ==
    IF items = <<>> THEN self
    ELSE With(Head(items), LAMBDA item :
           With(get_or_none(self, item.name), LAMBDA old_tag :
             update_loop(
               IF truth(old_tag) /\ ~truth(item.tag)
               THEN Tag(self[1], del_key(self[2], item.name))
               ELSE IF old_tag[1] \in CompoundKinds /\ item.tag[1] \in CompoundKinds
               THEN Tag(self[1], set_key(self[2], item.name, update(old_tag, item.tag)))
               ELSE Tag(self[1], set_key(self[2], item.name, item.tag)),
               Tail(items))))

update(self, other_tag) == update_loop(self, other_tag[2])

\* The loop of TagCompound.from_buff; root is cls.root.
RECURSIVE compound_from_buff(_, _, _, _)
compound_from_buff(kind, buf, pos, value) ==
    IF pos + 1 > Len(buf) THEN DecodeError("BufferUnderrun")
    ELSE With(be_signed(buf, pos, 1), LAMBDA kind_id :
           IF kind_id = 0 THEN Decoded(Tag(kind, value), pos + 1)
           ELSE IF ~known_id(kind_id) THEN DecodeError("KeyError")
           ELSE With(TagString_from_buff(buf, pos + 1), LAMBDA name :
                  IF name.exc # "none" THEN name
                  ELSE With(from_buff(_kinds(kind_id), buf, name.pos), LAMBDA tag :
                         IF tag.exc # "none" THEN tag
                         ELSE IF kind = "TagRoot"
                         THEN Decoded(Tag(kind, set_key(value, name.tag[2], tag.tag)),
                                      tag.pos)
                         ELSE compound_from_buff(kind, buf, tag.pos,
                                                 set_key(value, name.tag[2], tag.tag)))))

TagCompound_from_buff(kind, buf, pos) == compound_from_buff(kind, buf, pos, <<>>)

from_buff(kind, buf, pos) ==
    CASE kind \in IntKinds -> _DataTag_from_buff(kind, buf, pos)
      [] kind = "TagString" -> TagString_from_buff(buf, pos)
      [] kind \in ArrayKinds -> _ArrayTag_from_buff(kind, buf, pos)
      [] kind = "TagList" -> TagList_from_buff(buf, pos)
      [] kind \in CompoundKinds -> TagCompound_from_buff(kind, buf, pos)

\* _Tag.from_bytes
from_bytes(kind, bytes) == from_buff(kind, bytes, 0)

\* _Tag.deep_copy: [exc, tag]
deep_copy(self) ==
    With(to_bytes(self), LAMBDA bytes :
      IF bytes.exc # "none" THEN [exc |-> bytes.exc, tag |-> PyFalse]
      ELSE With(from_bytes(self[1], bytes.bytes), LAMBDA copy :
             [exc |-> copy.exc, tag |-> copy.tag]))

\* _Tag.equals_exact
equals_exact(a, b) == to_bytes(a) = to_bytes(b)

\* ------------------------------------------------------------------------
\* StringReader
\* ------------------------------------------------------------------------
\* A str is a sequence of characters and the cursor counts the characters
\* already read.  A reading method returns [exc, value, cursor]: the
\* exception it raises ("none" if it returns), what it returns, and the
\* cursor it leaves.

Digits == <<"0", "1", "2", "3", "4", "5", "6", "7", "8", "9">>

Letters == {"a", "b", "d", "e", "f", "i", "l", "r", "s", "t", "u", "B", "E", "I", "L"}

is_digit(c) == \E i \in 1..10 : Digits[i] = c

digit_value(c) == (CHOOSE i \in 1..10 : Digits[i] = c) - 1

\* str.isspace
isspace(c) == c \in {" ", "LF"}

\* str.lower, on one character
lower(c) ==
    CASE c = "B" -> "b" [] c = "E" -> "e" [] c = "I" -> "i" [] c = "L" -> "l"
      [] OTHER -> c

\* string[start:end]
slice(str, start, end) == SubSeq(str, start + 1, end)

Read(exc, value, cursor) == [exc |-> exc, value |-> value, cursor |-> cursor]

canRead(str, cursor, length) == cursor + length <= Len(str)

peek(str, cursor, offset) == str[cursor + offset + 1]

isAllowedNumber(c) == is_digit(c) \/ c \in {"-", "."}

isQuotedStringStart(c) == c = "'" \/ c = "\""

\* The cursor after the longest run of characters satisfying allowed.
skip_while(str, cursor, allowed(_)) ==
    CHOOSE end \in cursor..Len(str) :
        /\ \A i \in (cursor + 1)..end : allowed(str[i])
        /\ (end = Len(str) \/ ~allowed(str[end + 1]))

skipWhitespace(str, cursor) == skip_while(str, cursor, isspace)

\* The largest magnitude a 32-bit integer takes, and a mark for a larger one.
IntMax == 2147483647

TooBig == -1

\* The value of a run of digits, or TooBig when it exceeds IntMax.
RECURSIVE digits_value(_, _)
digits_value(str, acc) ==
    IF str = <<>> THEN acc
    ELSE LET d == digit_value(Head(str))
         IN IF acc = TooBig \/ acc > IntMax \div 10
               \/ (acc = IntMax \div 10 /\ d > IntMax % 10)
            THEN digits_value(Tail(str), TooBig)
            ELSE digits_value(Tail(str), acc * 10 + d)

all_digits(str) == str # <<>> /\ \A i \in 1..Len(str) : is_digit(str[i])

\* digits without its leading zeros, one digit kept.
RECURSIVE strip_zeros(_)
strip_zeros(digits) ==
    IF Len(digits) > 1 /\ Head(digits) = "0" THEN strip_zeros(Tail(digits)) ELSE digits

\* 2**31 in digits: the magnitude of the least 32-bit integer.
IntLimitDigits == <<"2", "1", "4", "7", "4", "8", "3", "6", "4", "8">>

\* int(number) for a run of characters from 0-9, - and . : [exc, value];
\* big marks a magnitude the model's integers do not hold.
py_int(number) ==
    LET neg == number # <<>> /\ Head(number) = "-"
        body == IF neg THEN Tail(number) ELSE number
    IN IF ~all_digits(body) THEN [exc |-> "ValueError", value |-> 0, big |-> FALSE]
       ELSE With(digits_value(body, 0), LAMBDA v :
              IF v = TooBig /\ neg /\ strip_zeros(body) = IntLimitDigits
              THEN [exc |-> "none", value |-> 0 - IntMax - 1, big |-> FALSE]
              ELSE IF v = TooBig THEN [exc |-> "none", value |-> 0, big |-> TRUE]
              ELSE [exc |-> "none", value |-> IF neg THEN 0 - v ELSE v, big |-> FALSE])

\* readInt: the cursor is left after the run of number characters also
\* when the method raises ValueError, as "cursor = start" assigns a local.
readInt(str, cursor) ==
    With(skip_while(str, cursor, isAllowedNumber), LAMBDA end :
      With(py_int(slice(str, cursor, end)), LAMBDA parsed :
        IF end = cursor THEN Read("SyntaxError", 0, end)
        ELSE IF parsed.exc # "none" \/ parsed.big THEN Read("ValueError", 0, end)
        ELSE Read("none", parsed.value, end)))

isAllowedInUnquotedString(c) ==
    is_digit(c) \/ c \in Letters \/ c \in {"-", "+", ".", "_"}

readUnquotedString(str, cursor) ==
    With(skip_while(str, cursor, isAllowedInUnquotedString), LAMBDA end :
      Read("none", slice(str, cursor, end), end))

\* readStringUntil, from the state (cursor, result, escaped) of its loop.
RECURSIVE readStringUntil_loop(_, _, _, _, _)
readStringUntil_loop(str, cursor, terminator, result, escaped) ==
    IF ~canRead(str, cursor, 1) THEN Read("SyntaxError", <<>>, cursor)
    ELSE LET c == str[cursor + 1]
         IN IF escaped
            THEN IF c = terminator \/ c = "\\"
                 THEN readStringUntil_loop(str, cursor + 1, terminator, Append(result, c), FALSE)
                 ELSE Read("SyntaxError", <<>>, cursor)
            ELSE IF c = "\\"
                 THEN readStringUntil_loop(str, cursor + 1, terminator, result, TRUE)
                 ELSE IF c = terminator THEN Read("none", result, cursor + 1)
                 ELSE readStringUntil_loop(str, cursor + 1, terminator, Append(result, c), FALSE)

readStringUntil(str, cursor, terminator) ==
    readStringUntil_loop(str, cursor, terminator, <<>>, FALSE)

\* readQuotedString; the message of its SyntaxError names an undefined c.
readQuotedString(str, cursor) ==
    IF ~canRead(str, cursor, 1) THEN Read("none", <<>>, cursor)
    ELSE IF ~isQuotedStringStart(peek(str, cursor, 0)) THEN Read("NameError", <<>>, cursor)
    ELSE readStringUntil(str, cursor + 1, peek(str, cursor, 0))

readString(str, cursor) ==
    IF ~canRead(str, cursor, 1) THEN Read("none", <<>>, cursor)
    ELSE IF isQuotedStringStart(peek(str, cursor, 0))
         THEN readStringUntil(str, cursor + 1, peek(str, cursor, 0))
         ELSE readUnquotedString(str, cursor)

expect(str, cursor, c) ==
    IF ~canRead(str, cursor, 1) \/ peek(str, cursor, 0) # c
    THEN Read("SyntaxError", <<>>, cursor)
    ELSE Read("none", <<>>, cursor + 1)

\* a <= b, for two runs of digits without leading zeros.
RECURSIVE digits_le(_, _)
digits_le(a, b) ==
    IF Len(a) # Len(b) THEN Len(a) < Len(b)
    ELSE IF a = <<>> THEN TRUE
    ELSE IF Head(a) # Head(b) THEN digit_value(Head(a)) < digit_value(Head(b))
    ELSE digits_le(Tail(a), Tail(b))

\* 2**63 and 2**128 in digits.
LongLimitDigits == <<"9", "2", "2", "3", "3", "7", "2", "0", "3", "6", "8", "5", "4", "7", "7", "5", "8", "0", "8">>

FloatLimitDigits ==
    <<"3", "4", "0", "2", "8", "2", "3", "6", "6", "9", "2", "0", "9", "3", "8", "4", "6", "3", "4", "6">> \o
    <<"3", "3", "7", "4", "6", "0", "7", "4", "3", "1", "7", "6", "8", "2", "1", "1", "4", "5", "6">>

\* int(number) as Python computes it, without a bound: [exc, value], the
\* value held as sign and digits.
big_int(number) ==
    LET neg == number # <<>> /\ Head(number) = "-"
        body == IF neg THEN Tail(number) ELSE number
    IN IF ~all_digits(body) THEN [exc |-> "ValueError", value |-> [neg |-> FALSE, digits |-> <<"0">>]]
       ELSE With(strip_zeros(body), LAMBDA digits :
              [exc |-> "none", value |-> [neg |-> neg /\ digits # <<"0">>, digits |-> digits]])

\* readLong without its test of the range.
readLong_unchecked(str, cursor) ==
    With(skip_while(str, cursor, isAllowedNumber), LAMBDA end :
      With(big_int(slice(str, cursor, end)), LAMBDA parsed :
        IF end = cursor THEN Read("SyntaxError", 0, end)
        ELSE IF parsed.exc # "none" THEN Read("ValueError", 0, end)
        ELSE Read("none", parsed.value, end)))

\* -1*(2**63) > int(number) or int(number) >= 2**63
outside_long(v) ==
    IF v.neg THEN ~digits_le(v.digits, LongLimitDigits)
    ELSE digits_le(LongLimitDigits, v.digits)

\* readLong: as readInt, "cursor = start" assigns a local.
readLong(str, cursor) ==
    With(skip_while(str, cursor, isAllowedNumber), LAMBDA end :
      With(big_int(slice(str, cursor, end)), LAMBDA parsed :
        IF end = cursor THEN Read("SyntaxError", 0, end)
        ELSE IF parsed.exc # "none" \/ outside_long(parsed.value) THEN Read("ValueError", 0, end)
        ELSE Read("none", parsed.value, end)))

\* digits without its trailing zeros.
RECURSIVE strip_trailing_zeros(_)
strip_trailing_zeros(digits) ==
    IF digits # <<>> /\ digits[Len(digits)] = "0"
    THEN strip_trailing_zeros(SubSeq(digits, 1, Len(digits) - 1))
    ELSE digits

\* float(number) for a run of characters from 0-9, - and . : [exc, value],
\* the value held as sign, whole digits and fraction digits (the rounding
\* to the nearest double is left out).
py_float(number) ==
    LET neg == number # <<>> /\ Head(number) = "-"
        body == IF neg THEN Tail(number) ELSE number
        dots == {i \in 1..Len(body) : body[i] = "."}
        dot == IF dots = {} THEN Len(body) + 1 ELSE CHOOSE i \in dots : TRUE
    IN IF \/ Cardinality(dots) > 1
          \/ \E i \in 1..Len(body) : ~(is_digit(body[i]) \/ body[i] = ".")
          \/ ~\E i \in 1..Len(body) : is_digit(body[i])
       THEN [exc |-> "ValueError", value |-> 0]
       ELSE [exc |-> "none",
             value |-> [neg |-> neg,
                        whole |-> strip_zeros(IF dot = 1 THEN <<"0">> ELSE SubSeq(body, 1, dot - 1)),
                        fraction |-> strip_trailing_zeros(SubSeq(body, dot + 1, Len(body)))]]

readDouble(str, cursor) ==
    With(skip_while(str, cursor, isAllowedNumber), LAMBDA end :
      With(py_float(slice(str, cursor, end)), LAMBDA parsed :
        IF end = cursor THEN Read("SyntaxError", 0, end)
        ELSE IF parsed.exc # "none" THEN Read("ValueError", 0, end)
        ELSE Read("none", parsed.value, end)))

\* abs(float(number)) >= 2.0**128
readFloat(str, cursor) ==
    With(skip_while(str, cursor, isAllowedNumber), LAMBDA end :
      With(py_float(slice(str, cursor, end)), LAMBDA parsed :
        IF end = cursor THEN Read("SyntaxError", 0, end)
        ELSE IF parsed.exc # "none" THEN Read("ValueError", 0, end)
        ELSE IF digits_le(FloatLimitDigits, parsed.value.whole) THEN Read("ValueError", 0, end)
        ELSE Read("none", parsed.value, end)))

\* readBoolean: self.cursor = start is reached only by a non-empty value
\* other than true and false; an exception of readString passes through.
readBoolean(str, cursor) ==
    With(readString(str, cursor), LAMBDA value :
      IF value.exc # "none" THEN Read(value.exc, FALSE, value.cursor)
      ELSE IF Len(value.value) = 0 THEN Read("SyntaxError", FALSE, value.cursor)
      ELSE IF value.value = <<"t", "r", "u", "e">> THEN Read("none", TRUE, value.cursor)
      ELSE IF value.value = <<"f", "a", "l", "s", "e">> THEN Read("none", FALSE, value.cursor)
      ELSE Read("SyntaxError", FALSE, cursor))

\* ------------------------------------------------------------------------
\* MojangsonParser
\* ------------------------------------------------------------------------
\* A parsing method returns [exc, value, cursor] like a reading method; the
\* value is the tag parsed.

\* str without a leading [-+]
strip_sign(str) == IF str # <<>> /\ Head(str) \in {"-", "+"} THEN Tail(str) ELSE str

negative(str) == str # <<>> /\ Head(str) = "-"

\* str[:-1]
but_last(str) == SubSeq(str, 1, Len(str) - 1)

ends_with(str, c) == str # <<>> /\ lower(str[Len(str)]) = c

no_digits_or_all(str) == \A i \in 1..Len(str) : is_digit(str[i])

\* (0|[1-9][0-9]*)
match_integer(str) == all_digits(str) /\ (str = <<"0">> \/ str[1] # "0")

\* The position of the first c in str, or 0.
find(str, c) ==
    IF \E i \in 1..Len(str) : lower(str[i]) = c
    THEN CHOOSE i \in 1..Len(str) : lower(str[i]) = c /\ \A j \in 1..(i - 1) : lower(str[j]) # c
    ELSE 0

\* ([0-9]+[.]?|[0-9]*[.][0-9]+), or with must_dot ([0-9]+[.]|[0-9]*[.][0-9]+)
match_mantissa(str, must_dot) ==
    With(find(str, "."), LAMBDA dot :
      IF dot = 0 THEN ~must_dot /\ all_digits(str)
      ELSE \/ all_digits(SubSeq(str, 1, dot - 1)) /\ dot = Len(str)
           \/ /\ no_digits_or_all(SubSeq(str, 1, dot - 1))
              /\ all_digits(SubSeq(str, dot + 1, Len(str))))

\* [-+]?<mantissa>(e[-+]?[0-9]+)?
match_decimal(str, must_dot) ==
    With(strip_sign(str), LAMBDA body :
      With(find(body, "e"), LAMBDA e :
        IF e = 0 THEN match_mantissa(body, must_dot)
        ELSE /\ match_mantissa(SubSeq(body, 1, e - 1), must_dot)
             /\ all_digits(strip_sign(SubSeq(body, e + 1, Len(body))))))

regexDoubleNoSuffix(str) == match_decimal(str, TRUE)

regexDouble(str) == ends_with(str, "d") /\ match_decimal(but_last(str), FALSE)

regexFloat(str) == ends_with(str, "f") /\ match_decimal(but_last(str), FALSE)

regexByte(str) == ends_with(str, "b") /\ match_integer(strip_sign(but_last(str)))

regexLong(str) == ends_with(str, "l") /\ match_integer(strip_sign(but_last(str)))

regexShort(str) == ends_with(str, "s") /\ match_integer(strip_sign(but_last(str)))

regexInt(str) == match_integer(strip_sign(str))

\* A magnitude above IntMax is held as IntMax: the literals of the model
\* stay below it.
magnitude(str) == With(digits_value(str, 0), LAMBDA v : IF v = TooBig THEN IntMax ELSE v)

\* int(str) of a string that matches [-+]?[0-9]+
int_of(str) ==
    With(magnitude(strip_sign(str)), LAMBDA m : IF negative(str) THEN 0 - m ELSE m)

\* float(str) of a string that match_decimal accepts, as a decimal <<m, e>>
float_of(str) ==
    With(strip_sign(str), LAMBDA body :
      With(find(body, "e"), LAMBDA e :
        With(IF e = 0 THEN body ELSE SubSeq(body, 1, e - 1), LAMBDA mant :
          With(find(mant, "."), LAMBDA dot :
            With(IF dot = 0 THEN <<>> ELSE SubSeq(mant, dot + 1, Len(mant)), LAMBDA frac :
              With(magnitude((IF dot = 0 THEN mant ELSE SubSeq(mant, 1, dot - 1)) \o frac),
                   LAMBDA m :
                dec_norm(IF negative(str) THEN 0 - m ELSE m,
                         (IF e = 0 THEN 0 ELSE int_of(SubSeq(body, e + 1, Len(body))))
                           - Len(frac))))))))

lower_str(str) == [i \in 1..Len(str) |-> lower(str[i])]

\* The seven patterns exclude one another, so the order of the tests in
\* parse_literal does not show.
parse_literal(literal_str) ==
    CASE regexFloat(literal_str) -> Tag("TagFloat", float_of(but_last(literal_str)))
      [] regexByte(literal_str) -> Tag("TagByte", int_of(but_last(literal_str)))
      [] regexLong(literal_str) -> Tag("TagLong", int_of(but_last(literal_str)))
      [] regexShort(literal_str) -> Tag("TagShort", int_of(but_last(literal_str)))
      [] regexInt(literal_str) -> Tag("TagInt", int_of(literal_str))
      [] regexDouble(literal_str) -> Tag("TagDouble", float_of(but_last(literal_str)))
      [] regexDoubleNoSuffix(literal_str) -> Tag("TagDouble", float_of(literal_str))
      [] lower_str(literal_str) = <<"t", "r", "u", "e">> -> Tag("TagByte", 1)
      [] lower_str(literal_str) = <<"f", "a", "l", "s", "e">> -> Tag("TagByte", 0)
      [] OTHER -> Tag("TagString", literal_str)

NoTag == Tag("None", 0)

\* raise_error: SyntaxError at the cursor
raise_error(cursor) == Read("SyntaxError", NoTag, cursor)

advance_and_fail_if_next_is_not(str, cursor, char) ==
    expect(str, skipWhitespace(str, cursor), char)

\* seek_to_next_comma_delim_element: [found, cursor]
seek_to_next_comma_delim_element(str, cursor) ==
    With(skipWhitespace(str, cursor), LAMBDA at :
      IF canRead(str, at, 1) /\ peek(str, at, 0) = ","
      THEN [found |-> TRUE, cursor |-> skipWhitespace(str, at + 1)]
      ELSE [found |-> FALSE, cursor |-> at])

parse_key_string(str, cursor) ==
    With(skipWhitespace(str, cursor), LAMBDA at :
      IF ~canRead(str, at, 1) THEN Read("SyntaxError", <<>>, at)
      ELSE readString(str, at))

parse_literal_or_string(str, cursor) ==
    With(skipWhitespace(str, cursor), LAMBDA orig_pos :
      IF ~canRead(str, orig_pos, 1) THEN Read("IndexError", NoTag, orig_pos)
      ELSE IF isQuotedStringStart(peek(str, orig_pos, 0))
      THEN With(readQuotedString(str, orig_pos), LAMBDA r :
             IF r.exc # "none" THEN Read(r.exc, NoTag, r.cursor)
             ELSE Read("none", Tag("TagString", r.value), r.cursor))
      ELSE With(readUnquotedString(str, orig_pos), LAMBDA r :
             IF r.value = <<>> THEN raise_error(orig_pos)
             ELSE Read("none", parse_literal(r.value), r.cursor)))

RECURSIVE parse_any_tag(_, _)

\* The while loop of parse_non_numeric_array, entered with the reader able
\* to read; item_type is "None" until the first element is parsed.
RECURSIVE non_numeric_array_loop(_, _, _, _)
non_numeric_array_loop(str, cursor, nbt_list, item_type) ==
    IF peek(str, cursor, 0) = "]"
    THEN With(advance_and_fail_if_next_is_not(str, cursor, "]"), LAMBDA r :
           Read(r.exc, Tag("TagList", nbt_list), r.cursor))
    ELSE With(parse_any_tag(str, cursor), LAMBDA new_value :
           IF new_value.exc # "none" THEN new_value
           ELSE IF item_type # "None" /\ item_type # new_value.value[1]
           THEN raise_error(cursor)
           ELSE With(seek_to_next_comma_delim_element(str, new_value.cursor), LAMBDA seek :
                  IF ~seek.found
                  THEN With(advance_and_fail_if_next_is_not(str, seek.cursor, "]"), LAMBDA r :
                         IF r.exc # "none" THEN Read(r.exc, NoTag, r.cursor)
                         ELSE Read("none",
                                   Tag("TagList", Append(nbt_list, new_value.value)),
                                   r.cursor))
                  ELSE IF ~canRead(str, seek.cursor, 1) THEN raise_error(seek.cursor)
                  ELSE non_numeric_array_loop(str, seek.cursor,
                                              Append(nbt_list, new_value.value),
                                              new_value.value[1])))

parse_non_numeric_array(str, cursor) ==
    With(advance_and_fail_if_next_is_not(str, cursor, "["), LAMBDA open :
      IF open.exc # "none" THEN Read(open.exc, NoTag, open.cursor)
      ELSE With(skipWhitespace(str, open.cursor), LAMBDA at :
             IF ~canRead(str, at, 1) THEN raise_error(at)
             ELSE With(non_numeric_array_loop(str, at, <<>>, "None"), LAMBDA r :
                    IF r.exc # "none" THEN Read(r.exc, NoTag, r.cursor) ELSE r)))

\* parse_numeric_array_as_type without self.reader.set_cursor(orig_pos).
RECURSIVE numeric_array_without_set_cursor(_, _, _, _)
numeric_array_without_set_cursor(str, cursor, item_type, array) ==
    IF peek(str, cursor, 0) = "]"
    THEN With(advance_and_fail_if_next_is_not(str, cursor, "]"), LAMBDA r :
           Read(r.exc, array, r.cursor))
    ELSE With(parse_any_tag(str, cursor), LAMBDA new_value :
           IF new_value.exc # "none" THEN Read(new_value.exc, <<>>, new_value.cursor)
           ELSE IF new_value.value[1] # item_type
           THEN Read("SyntaxError", <<>>, new_value.cursor)
           ELSE With(seek_to_next_comma_delim_element(str, new_value.cursor), LAMBDA seek :
                  IF seek.found
                  THEN IF ~canRead(str, seek.cursor, 1)
                       THEN Read("SyntaxError", <<>>, seek.cursor)
                       ELSE numeric_array_without_set_cursor(str, seek.cursor, item_type,
                                                             Append(array, new_value.value[2]))
                  ELSE With(advance_and_fail_if_next_is_not(str, seek.cursor, "]"), LAMBDA r :
                         Read(r.exc, Append(array, new_value.value[2]), r.cursor))))

\* The while loop of parse_numeric_array_as_type: [exc, value, cursor] with
\* the list of numbers as value.
RECURSIVE parse_numeric_array_as_type(_, _, _, _)
parse_numeric_array_as_type(str, cursor, item_type, array) ==
    IF peek(str, cursor, 0) = "]"
    THEN With(advance_and_fail_if_next_is_not(str, cursor, "]"), LAMBDA r :
           Read(r.exc, array, r.cursor))
    ELSE With(parse_any_tag(str, cursor), LAMBDA new_value :
           IF new_value.exc # "none" THEN Read(new_value.exc, <<>>, new_value.cursor)
           ELSE IF new_value.value[1] # item_type THEN Read("SyntaxError", <<>>, cursor)
           ELSE With(seek_to_next_comma_delim_element(str, new_value.cursor), LAMBDA seek :
                  IF seek.found
                  THEN IF ~canRead(str, seek.cursor, 1)
                       THEN Read("SyntaxError", <<>>, seek.cursor)
                       ELSE parse_numeric_array_as_type(str, seek.cursor, item_type,
                                                        Append(array, new_value.value[2]))
                  ELSE With(advance_and_fail_if_next_is_not(str, seek.cursor, "]"), LAMBDA r :
                         Read(r.exc, Append(array, new_value.value[2]), r.cursor))))

\* The class of array and of element that a type character selects.
array_types(first_char) ==
    CASE first_char = "B" -> <<"TagByteArray", "TagByte">>
      [] first_char = "L" -> <<"TagLongArray", "TagLong">>
      [] first_char = "I" -> <<"TagIntArray", "TagInt">>
      [] OTHER -> <<"None", "None">>

parse_typed_numeric_array(str, cursor) ==
    With(advance_and_fail_if_next_is_not(str, cursor, "["), LAMBDA open :
      IF open.exc # "none" THEN Read(open.exc, NoTag, open.cursor)
      ELSE With(skipWhitespace(str, open.cursor + 2), LAMBDA at :
             IF ~canRead(str, at, 1) THEN raise_error(at)
             ELSE With(array_types(peek(str, open.cursor, 0)), LAMBDA types :
                    IF types[1] = "None" THEN raise_error(open.cursor)
                    ELSE With(parse_numeric_array_as_type(str, at, types[2], <<>>),
                              LAMBDA r :
                           IF r.exc # "none" THEN Read(r.exc, NoTag, r.cursor)
                           ELSE Read("none", Tag(types[1], r.value), r.cursor)))))

parse_array(str, cursor) ==
    IF /\ canRead(str, cursor, 3)
       /\ ~isQuotedStringStart(peek(str, cursor, 1))
       /\ peek(str, cursor, 2) = ";"
    THEN parse_typed_numeric_array(str, cursor)
    ELSE parse_non_numeric_array(str, cursor)

\* The while loop of parse_compound, from the cursor and the entries so far.
RECURSIVE compound_loop(_, _, _)
compound_loop(str, cursor, compound) ==
    IF ~(canRead(str, cursor, 1) /\ peek(str, cursor, 0) # "}")
    THEN With(advance_and_fail_if_next_is_not(str, cursor, "}"), LAMBDA r :
           Read(r.exc, Tag("TagCompound", compound), r.cursor))
    ELSE With(parse_key_string(str, cursor), LAMBDA key :
           IF key.exc # "none" THEN Read(key.exc, NoTag, key.cursor)
           ELSE IF key.value = <<>> THEN raise_error(cursor)
           ELSE With(advance_and_fail_if_next_is_not(str, key.cursor, ":"), LAMBDA colon :
                  IF colon.exc # "none" THEN Read(colon.exc, NoTag, colon.cursor)
                  ELSE With(parse_any_tag(str, colon.cursor), LAMBDA value :
                         IF value.exc # "none" THEN Read(value.exc, NoTag, value.cursor)
                         ELSE With(seek_to_next_comma_delim_element(str, value.cursor),
                                   LAMBDA seek :
                           IF ~seek.found
                           THEN With(advance_and_fail_if_next_is_not(str, seek.cursor, "}"),
                                     LAMBDA r :
                                  Read(r.exc,
                                       Tag("TagCompound",
                                           set_key(compound, key.value, value.value)),
                                       r.cursor))
                           ELSE IF ~canRead(str, seek.cursor, 1)
                           THEN raise_error(seek.cursor)
                           ELSE compound_loop(str, seek.cursor,
                                              set_key(compound, key.value, value.value))))))

parse_compound(str, cursor) ==
    With(advance_and_fail_if_next_is_not(str, cursor, "{"), LAMBDA open :
      IF open.exc # "none" THEN Read(open.exc, NoTag, open.cursor)
      ELSE With(compound_loop(str, skipWhitespace(str, open.cursor), <<>>), LAMBDA r :
             IF r.exc # "none" THEN Read(r.exc, NoTag, r.cursor) ELSE r))

parse_any_tag(str, cursor) ==
    With(skipWhitespace(str, cursor), LAMBDA at :
      IF ~canRead(str, at, 1) THEN raise_error(at)
      ELSE IF peek(str, at, 0) = "{" THEN parse_compound(str, at)
      ELSE IF peek(str, at, 0) = "[" THEN parse_array(str, at)
      ELSE parse_literal_or_string(str, at))

\* TagCompound.from_mojangson, on a reader at the cursor
from_mojangson(str, cursor) == parse_compound(str, cursor)

\* ------------------------------------------------------------------------
\* NBT paths
\* ------------------------------------------------------------------------
\* A path is read through one StringReader that the methods hand on, so a
\* path method takes the tag, the path string and the cursor.  at_path
\* returns [exc, tag], count_multipath [exc, n], and iter_multipath_pair
\* [exc, yields]: the pairs <<subpath, tag>> yielded before the generator
\* ends or raises exc.

Found(exc, tag) == [exc |-> exc, tag |-> tag]

Counted(exc, n) == [exc |-> exc, n |-> n]

Yielded(exc, yields) == [exc |-> exc, yields |-> yields]

\* An element of a PackedArray: a Python int, which is not a tag.
PyInt(v) == <<"int", v>>

\* str(n) for n >= 0
RECURSIVE str_of_nat(_)
str_of_nat(n) ==
    IF n < 10 THEN <<Digits[n + 1]>>
    ELSE Append(str_of_nat(n \div 10), Digits[(n % 10) + 1])

\* f'[{index}]'
index_segment_from_one(index) == <<"[">> \o str_of_nat(index + 1) \o <<"]">>

index_segment(index) ==
    <<"[">> \o (IF index < 0 THEN <<"-">> \o str_of_nat(0 - index) ELSE str_of_nat(index))
    \o <<"]">>

\* nbt_path_join of two paths
nbt_path_join(first, second) ==
    IF second = <<>> THEN first
    ELSE IF Head(second) = "[" THEN first \o second
    ELSE first \o <<".">> \o second

\* _nbt_path_node_prefix_check: the exception it raises, or "none"
_nbt_path_node_prefix_check(str, cursor) ==
    IF canRead(str, cursor, 1) /\ peek(str, cursor, 0) = "." THEN "SyntaxError" ELSE "none"

\* _nbt_path_node_suffix_check: [exc, value, cursor]
_nbt_path_node_suffix_check(str, cursor) ==
    IF ~canRead(str, cursor, 1) THEN Read("none", <<>>, cursor)
    ELSE IF peek(str, cursor, 0) = "." THEN Read("none", <<>>, cursor + 1)
    ELSE IF peek(str, cursor, 0) # "[" THEN Read("SyntaxError", <<>>, cursor)
    ELSE Read("none", <<>>, cursor)

\* "index = path.read_int()" and the test for the closing bracket that
\* follows it: [exc, value, cursor] with the index as value.
read_index(str, cursor) ==
    With(readInt(str, cursor), LAMBDA index :
      IF index.exc # "none" THEN index
      ELSE IF ~canRead(str, index.cursor, 1) \/ peek(str, index.cursor, 0) # "]"
      THEN Read("SyntaxError", 0, index.cursor)
      ELSE Read("none", index.value, index.cursor + 1))

\* -len(self.value) > index or index >= len(self.value)
out_of_range(n, index) == 0 - n > index \/ index >= n

\* The position, counted from the start, that value[index] takes.
py_index_from_start(n, index) == IF index < 0 THEN 0 - index ELSE index + 1

py_index(n, index) == IF index < 0 THEN n + index + 1 ELSE index + 1

\* The tag name that starts a path segment of a compound, read by the same
\* lines in each of the path methods: [exc, value, raw, cursor] with the
\* name as value and the text it was written as.
Name(exc, value, raw, cursor) == [exc |-> exc, value |-> value, raw |-> raw, cursor |-> cursor]

name_char(c) == c \notin {" ", ".", "[", "]", "{", "}", "\""}

child_tag_name(str, cursor) ==
    IF peek(str, cursor, 0) \in {" ", ".", "]", "}", "\\"}
    THEN Name("SyntaxError", <<>>, <<>>, cursor)
    ELSE IF peek(str, cursor, 0) = "\""
    THEN With(readStringUntil(str, cursor + 1, "\""), LAMBDA r :
           Name(r.exc, r.value, slice(str, cursor, r.cursor), r.cursor))
    ELSE With(skip_while(str, cursor, name_char), LAMBDA end :
           IF canRead(str, end, 1) /\ peek(str, end, 0) \notin {".", "[", "{"}
           THEN Name("SyntaxError", <<>>, <<>>, end)
           ELSE IF cursor = end THEN Name("SyntaxError", <<>>, <<>>, end)
           ELSE Name("none", slice(str, cursor, end), slice(str, cursor, end), end))

\* ------------------------------------------------------------------------
\* to_mojangson
\* ------------------------------------------------------------------------
\* The result of a to_mojangson call: the exception raised ("none" if it
\* returned) and the text.
Text(exc, text) == [exc |-> exc, text |-> text]

\* str(i) of an int
int_text(i) == IF i < 0 THEN <<"-">> \o str_of_nat(0 - i) ELSE str_of_nat(i)

zeros(n) == [i \in 1..n |-> "0"]

\* str(x) of a float held as a decimal <<m, e>>, for 1e-4 <= |x| < 1e16
\* (where Python writes no exponent).
float_text(dec) ==
    With(str_of_nat(IF dec[1] < 0 THEN 0 - dec[1] ELSE dec[1]), LAMBDA digits :
      (IF dec[1] < 0 THEN <<"-">> ELSE <<>>) \o
      (IF dec[2] >= 0 THEN digits \o zeros(dec[2]) \o <<".", "0">>
       ELSE IF Len(digits) > 0 - dec[2]
       THEN SubSeq(digits, 1, Len(digits) + dec[2]) \o <<".">>
              \o SubSeq(digits, Len(digits) + dec[2] + 1, Len(digits))
       ELSE <<"0", ".">> \o zeros(0 - dec[2] - Len(digits)) \o digits))

\* postfix[False] of the _DataTag classes
data_postfix(kind) ==
    CASE kind = "TagByte" -> <<"b">> [] kind = "TagShort" -> <<"s">>
      [] kind = "TagInt" -> <<>> [] kind = "TagLong" -> <<"L">>
      [] kind = "TagFloat" -> <<"f">> [] kind = "TagDouble" -> <<"d">>

\* _Tag.to_mojangson: f'{prefix}{self.value!s}{postfix}' (no class with a
\* prefix inherits it).
_Tag_to_mojangson(self) ==
    Text("none", (IF self[1] \in FloatKinds THEN float_text(self[2]) ELSE int_text(self[2]))
                   \o data_postfix(self[1]))

\* text.count(c)
count_char(text, c) == Cardinality({i \in 1..Len(text) : text[i] = c})

\* TagString.use_single_quotes; find is 0 for an absent character and
\* str.find is -1, which orders the same way here since both are present.
use_single_quotes(text) ==
    With(count_char(text, "'"), LAMBDA single_quote_count :
      With(count_char(text, "\""), LAMBDA double_quote_count :
        IF single_quote_count = double_quote_count
        THEN IF single_quote_count = 0 THEN FALSE
             ELSE find(text, "'") > find(text, "\"")
        ELSE single_quote_count < double_quote_count))

\* text.replace(c, repl)
RECURSIVE replace(_, _, _)
replace(text, c, repl) ==
    IF text = <<>> THEN <<>>
    ELSE (IF Head(text) = c THEN repl ELSE <<Head(text)>>) \o replace(Tail(text), c, repl)

\* TagString.escape_value is a static method: after the two replace calls
\* it reads self, a name it does not have, and raises NameError.
escape_value(text) ==
    With(replace(replace(text, "\\", <<"\\", "\\">>), "\n", <<"\\", "n", "\"">>),
         LAMBDA replaced : Text("NameError", <<>>))

TagString_to_mojangson(self) ==
    With(IF use_single_quotes(self[2]) THEN <<"'">> ELSE <<"\"">>, LAMBDA q :
      With(escape_value(self[2]), LAMBDA text :
        IF text.exc # "none" THEN text
        ELSE Text("none", q \o text.text \o q)))

\* The elements of an array, each made signed and given the type postfix,
\* joined by ','. Elements are below 2^31, so only a byte can be negative.
RECURSIVE array_contents(_, _)
array_contents(kind, packed) ==
    IF packed = <<>> THEN <<>>
    ELSE int_text(IF kind = "TagByteArray" /\ Head(packed) >= 128
                  THEN Head(packed) - 256 ELSE Head(packed))
           \o (CASE kind = "TagByteArray" -> <<"b">> [] kind = "TagIntArray" -> <<>>
                 [] kind = "TagLongArray" -> <<"l">>)
           \o (IF Len(packed) = 1 THEN <<>>
               ELSE <<",">> \o array_contents(kind, Tail(packed)))

_ArrayTag_to_mojangson(self) ==
    Text("none", (CASE self[1] = "TagByteArray" -> <<"[", "B", ";">>
                    [] self[1] = "TagIntArray" -> <<"[", "I", ";">>
                    [] self[1] = "TagLongArray" -> <<"[", "L", ";">>)
                   \o array_contents(self[1], self[2]) \o <<"]">>)

RECURSIVE to_mojangson(_)

\* The loop of TagList.to_mojangson and the join.
RECURSIVE list_contents(_)
list_contents(value) ==
    IF value = <<>> THEN Text("none", <<>>)
    ELSE With(to_mojangson(Head(value)), LAMBDA content :
           IF content.exc # "none" \/ Len(value) = 1 THEN content
           ELSE With(list_contents(Tail(value)), LAMBDA rest :
                  IF rest.exc # "none" THEN rest
                  ELSE Text("none", content.text \o <<",">> \o rest.text)))

TagList_to_mojangson(self) ==
    With(list_contents(self[2]), LAMBDA inner :
      IF inner.exc # "none" THEN inner
      ELSE Text("none", <<"[">> \o inner.text \o <<"]">>))

\* TagCompound.to_mojangson with sort=None: the loop over the keys reads
\* regexUnquotedString, an attribute of the class that is no name in the
\* method's scope, so the first key raises NameError; only a compound
\* with no key returns.
TagCompound_to_mojangson(self) ==
    IF self[2] = <<>> THEN Text("none", <<"{", "}">>)
    ELSE Text("NameError", <<>>)

to_mojangson(tag) ==
    CASE tag[1] \in DataKinds -> _Tag_to_mojangson(tag)
      [] tag[1] \in ArrayKinds -> _ArrayTag_to_mojangson(tag)
      [] tag[1] = "TagString" -> TagString_to_mojangson(tag)
      [] tag[1] = "TagList" -> TagList_to_mojangson(tag)
      [] tag[1] \in CompoundKinds -> TagCompound_to_mojangson(tag)

\* to_mojangson raises NameError: TagString.escape_value reads self, which
\* a static method does not have, and TagCompound.to_mojangson reads
\* regexUnquotedString, which is an attribute of the class.
RECURSIVE to_mojangson_raises(_)
to_mojangson_raises(tag) ==
    CASE tag[1] = "TagString" -> TRUE
      [] tag[1] \in CompoundKinds -> tag[2] # <<>>
      [] tag[1] = "TagList" -> \E i \in 1..Len(tag[2]) : to_mojangson_raises(tag[2][i])
      [] OTHER -> FALSE

RECURSIVE at_path(_, _, _)

_DataTag_at_path(self, str, cursor) ==
    IF _nbt_path_node_prefix_check(str, cursor) # "none" THEN Found("SyntaxError", NoTag)
    ELSE With(_nbt_path_node_suffix_check(str, cursor), LAMBDA suffix :
           IF suffix.exc # "none" THEN Found(suffix.exc, NoTag)
           ELSE IF ~canRead(str, suffix.cursor, 1) THEN Found("none", self)
           ELSE Found("KeyError", NoTag))

TagString_at_path(self, str, cursor) ==
    IF _nbt_path_node_prefix_check(str, cursor) # "none" THEN Found("SyntaxError", NoTag)
    ELSE With(_nbt_path_node_suffix_check(str, cursor), LAMBDA suffix :
           IF suffix.exc # "none" THEN Found(suffix.exc, NoTag)
           ELSE IF ~canRead(str, suffix.cursor, 1) THEN Found("none", self)
           ELSE Found("KeyError", NoTag))

_ArrayTag_at_path(self, str, cursor) ==
    IF _nbt_path_node_prefix_check(str, cursor) # "none" THEN Found("SyntaxError", NoTag)
    ELSE IF ~canRead(str, cursor, 1) THEN Found("none", self)
    ELSE IF peek(str, cursor, 0) # "[" THEN Found("SyntaxError", NoTag)
    ELSE With(read_index(str, cursor + 1), LAMBDA index :
           IF index.exc # "none" THEN Found(index.exc, NoTag)
           ELSE With(_nbt_path_node_suffix_check(str, index.cursor), LAMBDA suffix :
                  IF suffix.exc # "none" THEN Found(suffix.exc, NoTag)
                  ELSE IF canRead(str, suffix.cursor, 1) THEN Found("KeyError", NoTag)
                  ELSE IF out_of_range(Len(self[2]), index.value)
                  THEN Found("IndexError", NoTag)
                  ELSE at_path(PyInt(self[2][py_index(Len(self[2]), index.value)]),
                               str, suffix.cursor)))

TagList_at_path(self, str, cursor) ==
    IF _nbt_path_node_prefix_check(str, cursor) # "none" THEN Found("SyntaxError", NoTag)
    ELSE IF ~canRead(str, cursor, 1) THEN Found("none", self)
    ELSE IF peek(str, cursor, 0) # "[" THEN Found("SyntaxError", NoTag)
    ELSE IF ~canRead(str, cursor + 1, 1) THEN Found("SyntaxError", NoTag)
    ELSE With(read_index(str, cursor + 1), LAMBDA index :
           IF index.exc # "none" THEN Found(index.exc, NoTag)
           ELSE With(_nbt_path_node_suffix_check(str, index.cursor), LAMBDA suffix :
                  IF suffix.exc # "none" THEN Found(suffix.exc, NoTag)
                  ELSE IF out_of_range(Len(self[2]), index.value)
                  THEN Found("none", PyFalse)
                  ELSE at_path(self[2][py_index(Len(self[2]), index.value)],
                               str, suffix.cursor)))

\* The end of TagCompound.at_path: the qualifying {} that target must match.
at_path_matching(target, str, cursor) ==
    With(from_mojangson(str, cursor), LAMBDA target_must_match :
      IF target_must_match.exc # "none" THEN Found(target_must_match.exc, NoTag)
      ELSE With(_nbt_path_node_suffix_check(str, target_must_match.cursor), LAMBDA suffix :
             IF suffix.exc # "none" THEN Found(suffix.exc, NoTag)
             ELSE IF is_subset(target_must_match.value, target)
             THEN at_path(target, str, suffix.cursor)
             ELSE IF \/ to_mojangson_raises(target)
                     \/ to_mojangson_raises(target_must_match.value)
             THEN Found("NameError", NoTag)
             ELSE Found("KeyError", NoTag)))

TagCompound_at_path(self, str, cursor) ==
    IF _nbt_path_node_prefix_check(str, cursor) # "none" THEN Found("SyntaxError", NoTag)
    ELSE IF ~canRead(str, cursor, 1) THEN Found("none", self)
    ELSE IF peek(str, cursor, 0) = "{" THEN at_path_matching(self, str, cursor)
    ELSE IF peek(str, cursor, 0) = "[" THEN Found("LookupError", NoTag)
    ELSE With(child_tag_name(str, cursor), LAMBDA name :
           IF name.exc # "none" THEN Found(name.exc, NoTag)
           ELSE IF ~has_key(self, name.value) THEN Found("KeyError", NoTag)
           ELSE IF ~canRead(str, name.cursor, 1) THEN Found("none", get_key(self, name.value))
           ELSE IF peek(str, name.cursor, 0) \in {".", "["}
           THEN at_path(get_key(self, name.value), str,
                        _nbt_path_node_suffix_check(str, name.cursor).cursor)
           ELSE at_path_matching(get_key(self, name.value), str, name.cursor))

at_path(self, str, cursor) ==
    CASE self[1] \in DataKinds -> _DataTag_at_path(self, str, cursor)
      [] self[1] = "TagString" -> TagString_at_path(self, str, cursor)
      [] self[1] \in ArrayKinds -> _ArrayTag_at_path(self, str, cursor)
      [] self[1] = "TagList" -> TagList_at_path(self, str, cursor)
      [] self[1] \in CompoundKinds -> TagCompound_at_path(self, str, cursor)
      [] OTHER -> Found("AttributeError", NoTag)

\* The result of a has_path call: the exception raised ("none" if it
\* returned) and the bool.
Has(exc, held) == [exc |-> exc, held |-> held]

RECURSIVE has_path(_, _, _)

_DataTag_has_path(self, str, cursor) ==
    IF _nbt_path_node_prefix_check(str, cursor) # "none" THEN Has("SyntaxError", FALSE)
    ELSE With(_nbt_path_node_suffix_check(str, cursor), LAMBDA suffix :
           IF suffix.exc # "none" THEN Has(suffix.exc, FALSE)
           ELSE Has("none", ~canRead(str, suffix.cursor, 1)))

TagString_has_path(self, str, cursor) ==
    IF _nbt_path_node_prefix_check(str, cursor) # "none" THEN Has("SyntaxError", FALSE)
    ELSE Has("none", ~canRead(str, cursor, 1))

\* An element of an array is an int, which has no has_path.
_ArrayTag_has_path(self, str, cursor) ==
    IF _nbt_path_node_prefix_check(str, cursor) # "none" THEN Has("SyntaxError", FALSE)
    ELSE IF ~canRead(str, cursor, 1) THEN Has("none", TRUE)
    ELSE IF peek(str, cursor, 0) # "[" THEN Has("none", FALSE)
    ELSE With(readInt(str, cursor + 1), LAMBDA index :
           IF index.exc # "none" THEN Has(index.exc, FALSE)
           ELSE IF ~canRead(str, index.cursor, 1) \/ peek(str, index.cursor, 0) # "]"
           THEN Has("none", FALSE)
           ELSE With(_nbt_path_node_suffix_check(str, index.cursor + 1), LAMBDA suffix :
                  IF suffix.exc # "none" THEN Has(suffix.exc, FALSE)
                  ELSE IF canRead(str, suffix.cursor, 1) THEN Has("KeyError", FALSE)
                  ELSE IF out_of_range(Len(self[2]), index.value) THEN Has("none", FALSE)
                  ELSE has_path(PyInt(self[2][py_index(Len(self[2]), index.value)]),
                                str, suffix.cursor)))

\* The loop of the all-children case: the first child that has the path
\* ends it, and so does the first that raises.
RECURSIVE has_path_children(_, _, _)
has_path_children(value, str, cursor) ==
    IF value = <<>> THEN Has("none", FALSE)
    ELSE With(has_path(Head(value), str, cursor), LAMBDA child :
           IF child.exc # "none" \/ child.held THEN child
           ELSE has_path_children(Tail(value), str, cursor))

TagList_has_path(self, str, cursor) ==
    IF _nbt_path_node_prefix_check(str, cursor) # "none" THEN Has("SyntaxError", FALSE)
    ELSE IF ~canRead(str, cursor, 1) THEN Has("none", TRUE)
    ELSE IF peek(str, cursor, 0) # "[" THEN Has("none", FALSE)
    ELSE IF ~canRead(str, cursor + 1, 1) THEN Has("SyntaxError", FALSE)
    ELSE IF peek(str, cursor + 1, 0) = "]"
    THEN With(_nbt_path_node_suffix_check(str, cursor + 2), LAMBDA suffix :
           IF suffix.exc # "none" THEN Has(suffix.exc, FALSE)
           ELSE has_path_children(self[2], str, suffix.cursor))
    ELSE With(read_index(str, cursor + 1), LAMBDA index :
           IF index.exc # "none" THEN Has(index.exc, FALSE)
           ELSE With(_nbt_path_node_suffix_check(str, index.cursor), LAMBDA suffix :
                  IF suffix.exc # "none" THEN Has(suffix.exc, FALSE)
                  ELSE IF out_of_range(Len(self[2]), index.value) THEN Has("none", FALSE)
                  ELSE has_path(self[2][py_index(Len(self[2]), index.value)],
                                str, suffix.cursor)))

\* The end of TagCompound.has_path: the qualifying {} that target must match.
has_path_matching(target, str, cursor) ==
    With(from_mojangson(str, cursor), LAMBDA target_must_match :
      IF target_must_match.exc # "none" THEN Has(target_must_match.exc, FALSE)
      ELSE With(_nbt_path_node_suffix_check(str, target_must_match.cursor), LAMBDA suffix :
             IF suffix.exc # "none" THEN Has(suffix.exc, FALSE)
             ELSE IF is_subset(target_must_match.value, target)
             THEN has_path(target, str, suffix.cursor)
             ELSE Has("none", FALSE)))

TagCompound_has_path(self, str, cursor) ==
    IF _nbt_path_node_prefix_check(str, cursor) # "none" THEN Has("SyntaxError", FALSE)
    ELSE IF ~canRead(str, cursor, 1) THEN Has("none", TRUE)
    ELSE IF peek(str, cursor, 0) = "{" THEN has_path_matching(self, str, cursor)
    ELSE IF peek(str, cursor, 0) = "[" THEN Has("none", FALSE)
    ELSE With(child_tag_name(str, cursor), LAMBDA name :
           IF name.exc # "none" THEN Has(name.exc, FALSE)
           ELSE IF ~has_key(self, name.value) THEN Has("none", FALSE)
           ELSE IF ~canRead(str, name.cursor, 1) THEN Has("none", TRUE)
           ELSE IF peek(str, name.cursor, 0) \in {".", "["}
           THEN has_path(get_key(self, name.value), str,
                         _nbt_path_node_suffix_check(str, name.cursor).cursor)
           ELSE has_path_matching(get_key(self, name.value), str, name.cursor))

has_path(self, str, cursor) ==
    CASE self[1] \in DataKinds -> _DataTag_has_path(self, str, cursor)
      [] self[1] = "TagString" -> TagString_has_path(self, str, cursor)
      [] self[1] \in ArrayKinds -> _ArrayTag_has_path(self, str, cursor)
      [] self[1] = "TagList" -> TagList_has_path(self, str, cursor)
      [] self[1] \in CompoundKinds -> TagCompound_has_path(self, str, cursor)
      [] OTHER -> Has("AttributeError", FALSE)

RECURSIVE count_multipath(_, _, _)

_DataTag_count_multipath(self, str, cursor) ==
    IF _nbt_path_node_prefix_check(str, cursor) # "none" THEN Counted("SyntaxError", 0)
    ELSE With(_nbt_path_node_suffix_check(str, cursor), LAMBDA suffix :
           IF suffix.exc # "none" THEN Counted(suffix.exc, 0)
           ELSE IF ~canRead(str, suffix.cursor, 1) THEN Counted("none", 1)
           ELSE Counted("none", 0))

TagString_count_multipath(self, str, cursor) ==
    IF _nbt_path_node_prefix_check(str, cursor) # "none" THEN Counted("SyntaxError", 0)
    ELSE With(_nbt_path_node_suffix_check(str, cursor), LAMBDA suffix :
           IF suffix.exc # "none" THEN Counted(suffix.exc, 0)
           ELSE IF ~canRead(str, suffix.cursor, 1) THEN Counted("none", 1)
           ELSE Counted("none", 0))

_ArrayTag_count_multipath(self, str, cursor) ==
    IF _nbt_path_node_prefix_check(str, cursor) # "none" THEN Counted("SyntaxError", 0)
    ELSE IF ~canRead(str, cursor, 1) THEN Counted("none", 1)
    ELSE IF peek(str, cursor, 0) # "[" THEN Counted("none", 0)
    ELSE IF ~canRead(str, cursor + 1, 1) THEN Counted("SyntaxError", 0)
    ELSE IF peek(str, cursor + 1, 0) = "]"
    THEN With(_nbt_path_node_suffix_check(str, cursor + 2), LAMBDA all :
           IF all.exc # "none" THEN Counted(all.exc, 0)
           ELSE IF canRead(str, all.cursor, 1) THEN Counted("none", 0)
           ELSE Counted("none", Len(self[2])))
    ELSE With(read_index(str, cursor + 1), LAMBDA index :
           IF index.exc # "none" THEN Counted(index.exc, 0)
           ELSE With(_nbt_path_node_suffix_check(str, index.cursor), LAMBDA suffix :
                  IF suffix.exc # "none" THEN Counted(suffix.exc, 0)
                  ELSE IF canRead(str, suffix.cursor, 1) THEN Counted("none", 0)
                  ELSE IF out_of_range(Len(self[2]), index.value) THEN Counted("none", 0)
                  ELSE Counted("none", 1)))

\* "count += child.count_multipath(path)" over the children from the i-th
\* on that match; match is NoTag when every child is taken.
RECURSIVE count_children(_, _, _, _, _, _)
count_children(self, str, cursor, match, i, count) ==
    IF i > Len(self[2]) THEN Counted("none", count)
    ELSE IF match[1] # "None" /\ ~is_subset(match, self[2][i])
    THEN count_children(self, str, cursor, match, i + 1, count)
    ELSE With(count_multipath(self[2][i], str, cursor), LAMBDA child :
           IF child.exc # "none" THEN child
           ELSE count_children(self, str, cursor, match, i + 1, count + child.n))

TagList_count_multipath(self, str, cursor) ==
    IF _nbt_path_node_prefix_check(str, cursor) # "none" THEN Counted("SyntaxError", 0)
    ELSE IF ~canRead(str, cursor, 1) THEN Counted("none", 1)
    ELSE IF peek(str, cursor, 0) # "[" THEN Counted("none", 0)
    ELSE IF ~canRead(str, cursor + 1, 1) THEN Counted("SyntaxError", 0)
    ELSE IF peek(str, cursor + 1, 0) = "]"
    THEN With(_nbt_path_node_suffix_check(str, cursor + 2), LAMBDA all :
           IF all.exc # "none" THEN Counted(all.exc, 0)
           ELSE count_children(self, str, all.cursor, NoTag, 1, 0))
    ELSE IF peek(str, cursor + 1, 0) = "{"
    THEN With(from_mojangson(str, cursor + 1), LAMBDA child_must_match :
           IF child_must_match.exc # "none" THEN Counted(child_must_match.exc, 0)
           ELSE IF ~canRead(str, child_must_match.cursor, 1)
                   \/ peek(str, child_must_match.cursor, 0) # "]"
           THEN Counted("SyntaxError", 0)
           ELSE With(_nbt_path_node_suffix_check(str, child_must_match.cursor),
                     LAMBDA matching :
                  IF matching.exc # "none" THEN Counted(matching.exc, 0)
                  ELSE count_children(self, str, matching.cursor,
                                      child_must_match.value, 1, 0)))
    ELSE With(read_index(str, cursor + 1), LAMBDA index :
           IF index.exc # "none" THEN Counted(index.exc, 0)
           ELSE With(_nbt_path_node_suffix_check(str, index.cursor), LAMBDA suffix :
                  IF suffix.exc # "none" THEN Counted(suffix.exc, 0)
                  ELSE IF out_of_range(Len(self[2]), index.value) THEN Counted("none", 0)
                  ELSE count_multipath(self[2][py_index(Len(self[2]), index.value)],
                                       str, suffix.cursor)))

\* The end of TagCompound.count_multipath: the qualifying {}.
count_multipath_matching(target, str, cursor) ==
    With(from_mojangson(str, cursor), LAMBDA target_must_match :
      IF target_must_match.exc # "none" THEN Counted(target_must_match.exc, 0)
      ELSE With(_nbt_path_node_suffix_check(str, target_must_match.cursor), LAMBDA suffix :
             IF suffix.exc # "none" THEN Counted(suffix.exc, 0)
             ELSE IF is_subset(target_must_match.value, target)
             THEN count_multipath(target, str, suffix.cursor)
             ELSE Counted("none", 0)))

TagCompound_count_multipath(self, str, cursor) ==
    IF _nbt_path_node_prefix_check(str, cursor) # "none" THEN Counted("SyntaxError", 0)
    ELSE IF ~canRead(str, cursor, 1) THEN Counted("none", 1)
    ELSE IF peek(str, cursor, 0) = "{" THEN count_multipath_matching(self, str, cursor)
    ELSE IF peek(str, cursor, 0) = "[" THEN Counted("none", 0)
    ELSE With(child_tag_name(str, cursor), LAMBDA name :
           IF name.exc # "none" THEN Counted(name.exc, 0)
           ELSE IF ~has_key(self, name.value) THEN Counted("none", 0)
           ELSE IF ~canRead(str, name.cursor, 1) THEN Counted("none", 1)
           ELSE IF peek(str, name.cursor, 0) \in {".", "["}
           THEN count_multipath(get_key(self, name.value), str,
                                _nbt_path_node_suffix_check(str, name.cursor).cursor)
           ELSE count_multipath_matching(get_key(self, name.value), str, name.cursor))

count_multipath(self, str, cursor) ==
    CASE self[1] \in DataKinds -> _DataTag_count_multipath(self, str, cursor)
      [] self[1] = "TagString" -> TagString_count_multipath(self, str, cursor)
      [] self[1] \in ArrayKinds -> _ArrayTag_count_multipath(self, str, cursor)
      [] self[1] = "TagList" -> TagList_count_multipath(self, str, cursor)
      [] self[1] \in CompoundKinds -> TagCompound_count_multipath(self, str, cursor)
      [] OTHER -> Counted("AttributeError", 0)

RECURSIVE iter_multipath_pair(_, _, _)

\* "yield (nbt_path_join(first, subpath), tag)" for each pair a generator
\* yields; the exception it raises is passed on.
joined(first, inner) ==
    Yielded(inner.exc,
            [k \in 1..Len(inner.yields) |->
                <<nbt_path_join(first, inner.yields[k][1]), inner.yields[k][2]>>])

_DataTag_iter_multipath_pair(self, str, cursor) ==
    IF _nbt_path_node_prefix_check(str, cursor) # "none" THEN Yielded("SyntaxError", <<>>)
    ELSE With(_nbt_path_node_suffix_check(str, cursor), LAMBDA suffix :
           IF suffix.exc # "none" THEN Yielded(suffix.exc, <<>>)
           ELSE IF ~canRead(str, suffix.cursor, 1) THEN Yielded("none", <<(<<(<<>>), self>>)>>)
           ELSE Yielded("none", <<>>))

TagString_iter_multipath_pair(self, str, cursor) ==
    IF _nbt_path_node_prefix_check(str, cursor) # "none" THEN Yielded("SyntaxError", <<>>)
    ELSE With(_nbt_path_node_suffix_check(str, cursor), LAMBDA suffix :
           IF suffix.exc # "none" THEN Yielded(suffix.exc, <<>>)
           ELSE IF ~canRead(str, suffix.cursor, 1) THEN Yielded("none", <<(<<(<<>>), self>>)>>)
           ELSE Yielded("none", <<>>))

_ArrayTag_iter_multipath_pair(self, str, cursor) ==
    IF _nbt_path_node_prefix_check(str, cursor) # "none" THEN Yielded("SyntaxError", <<>>)
    ELSE IF ~canRead(str, cursor, 1) THEN Yielded("none", <<(<<(<<>>), self>>)>>)
    ELSE IF peek(str, cursor, 0) # "[" THEN Yielded("none", <<>>)
    ELSE IF ~canRead(str, cursor + 1, 1) THEN Yielded("SyntaxError", <<>>)
    ELSE IF peek(str, cursor + 1, 0) = "]"
    THEN With(_nbt_path_node_suffix_check(str, cursor + 2), LAMBDA all :
           IF all.exc # "none" THEN Yielded(all.exc, <<>>)
           ELSE IF canRead(str, all.cursor, 1) THEN Yielded("KeyError", <<>>)
           ELSE Yielded("none", [i \in 1..Len(self[2]) |->
                                    <<index_segment(i - 1), PyInt(self[2][i])>>]))
    ELSE With(read_index(str, cursor + 1), LAMBDA index :
           IF index.exc # "none" THEN Yielded(index.exc, <<>>)
           ELSE With(_nbt_path_node_suffix_check(str, index.cursor), LAMBDA suffix :
                  IF suffix.exc # "none" THEN Yielded(suffix.exc, <<>>)
                  ELSE IF canRead(str, suffix.cursor, 1) THEN Yielded("KeyError", <<>>)
                  ELSE IF out_of_range(Len(self[2]), index.value) THEN Yielded("none", <<>>)
                  ELSE joined(index_segment(index.value),
                              iter_multipath_pair(
                                  PyInt(self[2][py_index(Len(self[2]), index.value)]),
                                  str, suffix.cursor))))

\* The pairs yielded for the children from the i-th on that match; match is
\* NoTag when every child is taken.
RECURSIVE iter_children(_, _, _, _, _, _)
iter_children(self, str, cursor, match, i, yields) ==
    IF i > Len(self[2]) THEN Yielded("none", yields)
    ELSE IF match[1] # "None" /\ ~is_subset(match, self[2][i])
    THEN iter_children(self, str, cursor, match, i + 1, yields)
    ELSE With(joined(index_segment(i - 1), iter_multipath_pair(self[2][i], str, cursor)),
              LAMBDA child :
           IF child.exc # "none" THEN Yielded(child.exc, yields \o child.yields)
           ELSE iter_children(self, str, cursor, match, i + 1, yields \o child.yields))

TagList_iter_multipath_pair(self, str, cursor) ==
    IF _nbt_path_node_prefix_check(str, cursor) # "none" THEN Yielded("SyntaxError", <<>>)
    ELSE IF ~canRead(str, cursor, 1) THEN Yielded("none", <<(<<(<<>>), self>>)>>)
    ELSE IF peek(str, cursor, 0) # "[" THEN Yielded("none", <<>>)
    ELSE IF ~canRead(str, cursor + 1, 1) THEN Yielded("SyntaxError", <<>>)
    ELSE IF peek(str, cursor + 1, 0) = "]"
    THEN With(_nbt_path_node_suffix_check(str, cursor + 2), LAMBDA all :
           IF all.exc # "none" THEN Yielded(all.exc, <<>>)
           ELSE iter_children(self, str, all.cursor, NoTag, 1, <<>>))
    ELSE IF peek(str, cursor + 1, 0) = "{"
    THEN With(from_mojangson(str, cursor + 1), LAMBDA child_must_match :
           IF child_must_match.exc # "none" THEN Yielded(child_must_match.exc, <<>>)
           ELSE IF ~canRead(str, child_must_match.cursor, 1)
                   \/ peek(str, child_must_match.cursor, 0) # "]"
           THEN Yielded("SyntaxError", <<>>)
           ELSE With(_nbt_path_node_suffix_check(str, child_must_match.cursor),
                     LAMBDA matching :
                  IF matching.exc # "none" THEN Yielded(matching.exc, <<>>)
                  ELSE iter_children(self, str, matching.cursor,
                                     child_must_match.value, 1, <<>>)))
    ELSE With(read_index(str, cursor + 1), LAMBDA index :
           IF index.exc # "none" THEN Yielded(index.exc, <<>>)
           ELSE With(_nbt_path_node_suffix_check(str, index.cursor), LAMBDA suffix :
                  IF suffix.exc # "none" THEN Yielded(suffix.exc, <<>>)
                  ELSE IF out_of_range(Len(self[2]), index.value) THEN Yielded("none", <<>>)
                  ELSE joined(index_segment(index.value),
                              iter_multipath_pair(
                                  self[2][py_index(Len(self[2]), index.value)],
                                  str, suffix.cursor))))

\* The end of TagCompound.iter_multipath_pair: the qualifying {}.
iter_multipath_pair_matching(target, child_tag_name_raw, str, cursor) ==
    With(from_mojangson(str, cursor), LAMBDA target_must_match :
      IF target_must_match.exc # "none" THEN Yielded(target_must_match.exc, <<>>)
      ELSE With(_nbt_path_node_suffix_check(str, target_must_match.cursor), LAMBDA suffix :
             IF suffix.exc # "none" THEN Yielded(suffix.exc, <<>>)
             ELSE IF is_subset(target_must_match.value, target)
             THEN joined(child_tag_name_raw, iter_multipath_pair(target, str, suffix.cursor))
             ELSE Yielded("none", <<>>)))

TagCompound_iter_multipath_pair(self, str, cursor) ==
    IF _nbt_path_node_prefix_check(str, cursor) # "none" THEN Yielded("SyntaxError", <<>>)
    ELSE IF ~canRead(str, cursor, 1) THEN Yielded("none", <<(<<(<<>>), self>>)>>)
    ELSE IF peek(str, cursor, 0) = "{"
    THEN iter_multipath_pair_matching(self, <<>>, str, cursor)
    ELSE IF peek(str, cursor, 0) = "[" THEN Yielded("none", <<>>)
    ELSE With(child_tag_name(str, cursor), LAMBDA name :
           IF name.exc # "none" THEN Yielded(name.exc, <<>>)
           ELSE IF ~has_key(self, name.value) THEN Yielded("none", <<>>)
           ELSE IF ~canRead(str, name.cursor, 1)
           THEN Yielded("none", <<(<<name.raw, get_key(self, name.value)>>)>>)
           ELSE IF peek(str, name.cursor, 0) \in {".", "["}
           THEN joined(name.raw,
                       iter_multipath_pair(get_key(self, name.value), str,
                           _nbt_path_node_suffix_check(str, name.cursor).cursor))
           ELSE iter_multipath_pair_matching(get_key(self, name.value), name.raw,
                                             str, name.cursor))

iter_multipath_pair(self, str, cursor) ==
    CASE self[1] \in DataKinds -> _DataTag_iter_multipath_pair(self, str, cursor)
      [] self[1] = "TagString" -> TagString_iter_multipath_pair(self, str, cursor)
      [] self[1] \in ArrayKinds -> _ArrayTag_iter_multipath_pair(self, str, cursor)
      [] self[1] = "TagList" -> TagList_iter_multipath_pair(self, str, cursor)
      [] self[1] \in CompoundKinds -> TagCompound_iter_multipath_pair(self, str, cursor)
      [] OTHER -> Yielded("AttributeError", <<>>)

\* iter_multipath: the tags of the pairs, as list() collects them.
iter_multipath(self, str, cursor) ==
    With(iter_multipath_pair(self, str, cursor), LAMBDA pairs :
      Yielded(pairs.exc, [k \in 1..Len(pairs.yields) |-> pairs.yields[k][2]]))

\* ------------------------------------------------------------------------
\* Codec: the trees that are encoded, and the calls
\* ------------------------------------------------------------------------

\* Bound: the length of the lists that are built.
MaxListLen == 2

\* All sequences over S of length at most n.
RECURSIVE SeqsUpTo(_, _)
SeqsUpTo(S, n) ==
    IF n = 0 THEN {<<>>}
    ELSE LET shorter == SeqsUpTo(S, n - 1)
         IN shorter \cup {Append(q, x) : q \in {r \in shorter : Len(r) = n - 1}, x \in S}

ListsOver(S) == {Tag("TagList", q) : q \in SeqsUpTo(S, MaxListLen)}

\* The compounds with keys among a, b (in either order) and values in S.
CompoundsOver(S) ==
    {Tag("TagCompound", <<>>)}
    \cup {Tag("TagCompound", <<Entry(<<k>>, x)>>) : k \in {"a", "b"}, x \in S}
    \cup {Tag("TagCompound", <<Entry(<<k[1]>>, x), Entry(<<k[2]>>, y)>>) :
            k \in {<<"a", "b">>, <<"b", "a">>}, x \in S, y \in S}

CodecLeaves ==
    { Tag("TagByte", -1), Tag("TagInt", 1), Tag("TagString", <<"a">>),
      Tag("TagString", <<"WAVE", "NUL">>), Tag("TagIntArray", <<1, 2>>),
      Tag("TagString", <<>>) }

CodecInner ==
    { Tag("TagList", <<>>), Tag("TagList", <<Tag("TagInt", 1)>>),
      Tag("TagList", <<Tag("TagInt", 1), Tag("TagString", <<"a">>)>>),
      Tag("TagCompound", <<>>),
      Tag("TagCompound", <<Entry(<<"a">>, Tag("TagInt", 1))>>),
      Tag("TagCompound", <<Entry(<<"E_ACUTE">>, Tag("TagByte", -1)),
                           Entry(<<>>, Tag("TagString", <<"EURO", "b">>))>>),
      Tag("TagList", <<Tag("TagCompound", <<Entry(<<"a">>, Tag("TagLong", -2))>>)>>) }

CodecBodies == CompoundsOver(CodecLeaves) \cup CompoundsOver(CodecInner)

CodecTrees ==
    CodecLeaves \cup CodecInner \cup ListsOver(CodecLeaves) \cup ListsOver(CodecInner)
    \cup CodecBodies
    \cup {Tag("TagRoot", <<Entry(<<>>, body)>>) : body \in CompoundsOver(CodecInner)}

\* A list whose elements are not all of one class.
mixed_list(tag) ==
    /\ tag[1] = "TagList"
    /\ \E i, j \in 1..Len(tag[2]) : tag[2][i][1] # tag[2][j][1]

\* A valid tree: no mixed list at any depth.
RECURSIVE valid_tree(_)
valid_tree(tag) ==
    CASE tag[1] = "TagList" ->
            ~mixed_list(tag) /\ \A i \in 1..Len(tag[2]) : valid_tree(tag[2][i])
      [] tag[1] \in CompoundKinds ->
            \A i \in 1..Len(tag[2]) : valid_tree(tag[2][i].tag)
      [] OTHER -> TRUE

RECURSIVE depth(_)
depth(tag) ==
    CASE tag[1] = "TagList" ->
            1 + (IF tag[2] = <<>> THEN 0
                 ELSE depth(tag[2][CHOOSE i \in 1..Len(tag[2]) :
                          \A j \in 1..Len(tag[2]) : depth(tag[2][j]) <= depth(tag[2][i])]))
      [] tag[1] \in CompoundKinds ->
            1 + (IF tag[2] = <<>> THEN 0
                 ELSE depth(tag[2][CHOOSE i \in 1..Len(tag[2]) :
                          \A j \in 1..Len(tag[2]) :
                              depth(tag[2][j].tag) <= depth(tag[2][i].tag)].tag))
      [] OTHER -> 0

CodecInit ==
    /\ RegionInit
    /\ inp \in CodecTrees
    /\ op = "none"
    /\ out = "none"

CallToBytes ==
    /\ op = "none"
    /\ op' = "to_bytes"
    /\ out' = to_bytes(inp)
    /\ UNCHANGED <<inp, locations, timestamps, data, file_size, clock, saved, last, writers>>

CallDeepCopy ==
    /\ op = "none"
    /\ op' = "deep_copy"
    /\ out' = deep_copy(inp)
    /\ UNCHANGED <<inp, locations, timestamps, data, file_size, clock, saved, last, writers>>

CodecNext == CallToBytes \/ CallDeepCopy

SpecCodec == CodecInit /\ [][CodecNext]_vars

surrogates(cp) == <<55296 + ((cp - 65536) \div 1024), 56320 + ((cp - 65536) % 1024)>>

\* Modified UTF-8 of a string as C14 states it: U+0000 is C0 80 and a code
\* point above the BMP is its two surrogates, three bytes each.
RECURSIVE modified_utf8_by_surrogates(_)
modified_utf8_by_surrogates(str) ==
    IF str = <<>> THEN <<>>
    ELSE With(ord(Head(str)), LAMBDA cp :
           CASE cp = 0 -> <<192, 128>>
             [] cp >= 1 /\ cp < 128 -> <<cp>>
             [] cp >= 128 /\ cp < 2048 -> <<192 + (cp \div 64), 128 + (cp % 64)>>
             [] cp >= 2048 /\ cp < 65536 -> utf8_3(cp)
             [] OTHER -> utf8_3(surrogates(cp)[1]) \o utf8_3(surrogates(cp)[2]))
         \o modified_utf8_by_surrogates(Tail(str))

C5_MixedListFails ==
    (op = "to_bytes" /\ mixed_list(inp)) => out.exc # "none"

\* ------------------------------------------------------------------------
\* is_subset: the pairs of tags that are compared, and the call
\* ------------------------------------------------------------------------

SubsetLeaves ==
    { Tag("TagByte", 1), Tag("TagInt", 1), Tag("TagInt", 2), Tag("TagDouble", <<10, -1>>),
      Tag("TagString", <<"a">>), Tag("TagIntArray", <<1, 2>>), Tag("TagIntArray", <<2, 1>>),
      Tag("TagByteArray", <<1, 2>>) }

SubsetLists == ListsOver({Tag("TagInt", 1), Tag("TagInt", 2)})

SubsetValues ==
    { Tag("TagByte", 1), Tag("TagInt", 1), Tag("TagInt", 2), Tag("TagIntArray", <<1, 2>>),
      Tag("TagList", <<Tag("TagInt", 1)>>),
      Tag("TagList", <<Tag("TagCompound", <<Entry(<<"a">>, Tag("TagInt", 1))>>),
                       Tag("TagCompound", <<>>)>>),
      Tag("TagList", <<Tag("TagCompound", <<>>)>>),
      Tag("TagCompound", <<>>),
      Tag("TagCompound", <<Entry(<<"a">>, Tag("TagInt", 1))>>) }

SubsetTags == SubsetLeaves \cup SubsetLists \cup CompoundsOver(SubsetValues)
                \cup CompoundsOver(SubsetLists)

\* The tag holds a list, at any depth.
RECURSIVE holds_list(_)
holds_list(tag) ==
    CASE tag[1] = "TagList" -> TRUE
      [] tag[1] \in CompoundKinds ->
            \E i \in 1..Len(tag[2]) : holds_list(tag[2][i].tag)
      [] OTHER -> FALSE

SubsetInit ==
    /\ RegionInit
    /\ inp \in [a : SubsetTags, b : SubsetTags]
    /\ op = "none"
    /\ out = "none"

CallIsSubset ==
    /\ op = "none"
    /\ op' = "is_subset"
    /\ out' = [ab |-> is_subset(inp.a, inp.b), ba |-> is_subset(inp.b, inp.a)]
    /\ UNCHANGED <<inp, locations, timestamps, data, file_size, clock, saved, last, writers>>

SubsetNext == CallIsSubset

SpecSubset == SubsetInit /\ [][SubsetNext]_vars

\* C10: for compounds, arrays and scalars a and b (the compounds holding
\* any tags, lists included), is_subset(a, b) and is_subset(b, a) imply
\* a == b.
C10_SubsetBothWays ==
    (/\ op = "is_subset"
     /\ inp.a[1] # "TagList" /\ inp.b[1] # "TagList"
     /\ out.ab /\ out.ba) => tag_eq(inp.a, inp.b)

\* C10 for tags that hold no list at any depth: is_subset(a, b) and
\* is_subset(b, a) imply a == b.
C10_SubsetBothWaysNoList ==
    (/\ op = "is_subset"
     /\ ~holds_list(inp.a) /\ ~holds_list(inp.b)
     /\ out.ab /\ out.ba) => tag_eq(inp.a, inp.b)

\* C10 witness: two compounds without lists, written differently (key order
\* or the width of a number), are subsets of each other.
C10_Witness ==
    /\ op = "is_subset"
    /\ inp.a[1] = "TagCompound" /\ Len(inp.a[2]) = 2
    /\ ~holds_list(inp.a) /\ ~holds_list(inp.b)
    /\ inp.a # inp.b
    /\ out.ab /\ out.ba

\* ------------------------------------------------------------------------
\* Paths: the trees and paths that are tried, and the calls
\* ------------------------------------------------------------------------

PathElements ==
    { Tag("TagInt", 1),
      Tag("TagCompound", <<Entry(<<"a">>, Tag("TagInt", 1))>>),
      Tag("TagCompound", <<Entry(<<"a">>, Tag("TagInt", 1)), Entry(<<"b">>, Tag("TagInt", 2))>>) }

PathValues ==
    ListsOver(PathElements)
    \cup {Tag("TagIntArray", [i \in 1..n |-> i]) : n \in 0..MaxListLen}
    \cup {Tag("TagInt", 1), Tag("TagString", <<"a">>)}

\* Compounds that a key can lead to.
PathCompounds ==
    { Tag("TagCompound", <<Entry(<<"a">>, Tag("TagInt", 1))>>),
      Tag("TagCompound", <<Entry(<<"b">>, Tag("TagInt", 2))>>) }

PathTrees ==
    PathValues \cup {Tag("TagCompound", <<Entry(<<"a">>, v)>>) : v \in PathValues \cup PathCompounds}

bracketed(text) == <<"[">> \o text \o <<"]">>

KeySegments == {<<"a">>, <<"b">>, <<"\"", "a", "\"">>}

IndexSegments == {bracketed(int_text(i)) : i \in (0 - MaxListLen - 1)..MaxListLen}

FilterSegments == {bracketed(<<"{", "b", ":", "2", "}">>), bracketed(<<"{", "}">>)}

MatchSegments == {<<"{", "a", ":", "1", "}">>, <<"{", "}">>}

Segments ==
    KeySegments \cup IndexSegments \cup {bracketed(<<>>)} \cup FilterSegments \cup MatchSegments

Separators == {<<>>, <<".">>}

Paths ==
    {<<>>} \cup Segments
    \cup {s1 \o p \o s2 : s1 \in Segments, p \in Separators, s2 \in Segments}
    \cup {s1 \o p \o s2 \o q \o s3 :
            s1 \in Segments, p \in Separators, s2 \in Segments,
            q \in Separators, s3 \in {<<"a">>, <<"b">>}}

PathInit ==
    /\ RegionInit
    /\ inp \in [tree : PathTrees, path : Paths]
    /\ op = "none"
    /\ out = "none"

CallAtPath ==
    /\ op = "none"
    /\ op' = "at_path"
    /\ out' = at_path(inp.tree, inp.path, 0)
    /\ UNCHANGED <<inp, locations, timestamps, data, file_size, clock, saved, last, writers>>

CallCountMultipath ==
    /\ op = "none"
    /\ op' = "count_multipath"
    /\ out' = count_multipath(inp.tree, inp.path, 0)
    /\ UNCHANGED <<inp, locations, timestamps, data, file_size, clock, saved, last, writers>>

CallIterMultipathPair ==
    /\ op = "none"
    /\ op' = "iter_multipath_pair"
    /\ out' = iter_multipath_pair(inp.tree, inp.path, 0)
    /\ UNCHANGED <<inp, locations, timestamps, data, file_size, clock, saved, last, writers>>

CallHasPath ==
    /\ op = "none"
    /\ op' = "has_path"
    /\ out' = has_path(inp.tree, inp.path, 0)
    /\ UNCHANGED <<inp, locations, timestamps, data, file_size, clock, saved, last, writers>>

PathNext == CallAtPath \/ CallCountMultipath \/ CallIterMultipathPair \/ CallHasPath

SpecPath == PathInit /\ [][PathNext]_vars

\* C6: whenever at_path(t, p) returns normally, iter_multipath(t, p) yields
\* exactly one element, the value at_path returned.
C6_AtPathIsTheOneYielded ==
    (op = "at_path" /\ out.exc = "none") =>
        iter_multipath(inp.tree, inp.path, 0) = Yielded("none", <<out.tag>>)

\* The path is one segment [{...}] whose braces hold a compound that parses.
filter_segment(path) ==
    /\ Len(path) >= 4 /\ path[1] = "[" /\ path[2] = "{" /\ path[Len(path)] = "]"
    /\ from_mojangson(path, 1).exc = "none"
    /\ from_mojangson(path, 1).cursor = Len(path) - 1

\* The elements of a list of which the filter is a structural subset, in
\* list order.
selected(list, filter) ==
    LET matches(e) == is_subset(filter, e)
    IN SelectSeq(list[2], matches)

\* C7: on a list node the segment [{...}] makes count_multipath and
\* iter_multipath_pair select exactly the elements of which the parsed
\* filter is a structural subset, in list order; with no match they return
\* 0 and yield nothing, without raising.
C7_ListFilterSelects ==
    (inp.tree[1] = "TagList" /\ filter_segment(inp.path)) =>
        LET chosen == selected(inp.tree, from_mojangson(inp.path, 1).value)
        IN /\ op = "count_multipath" => out = Counted("none", Len(chosen))
           /\ op = "iter_multipath_pair" =>
                 /\ out.exc = "none"
                 /\ [k \in 1..Len(out.yields) |-> out.yields[k][2]] = chosen

\* The node that the path a[] or [] ends on, and the path before the [].
wildcard_path == inp.path \in {<<"[", "]">>, <<"a", "[", "]">>}

wildcard_prefix == IF Head(inp.path) = "a" THEN <<"a">> ELSE <<>>

wildcard_node ==
    IF Head(inp.path) = "a"
    THEN IF inp.tree[1] = "TagCompound" /\ has_key(inp.tree, <<"a">>)
         THEN get_key(inp.tree, <<"a">>) ELSE NoTag
    ELSE inp.tree

\* The i-th element of a list or array node, as iteration hands it out.
element(node, i) == IF node[1] \in ArrayKinds THEN PyInt(node[2][i]) ELSE node[2][i]

\* C8: on a list or array node with n elements, the wildcard [] at the end
\* of a path makes iter_multipath_pair yield exactly n results, one per
\* element in increasing index order with sub-paths [0] .. [n-1], and
\* count_multipath returns n.
C8_WildcardYieldsAll ==
    (wildcard_path /\ wildcard_node[1] \in ArrayKinds \cup {"TagList"}) =>
        LET n == Len(wildcard_node[2])
        IN /\ op = "count_multipath" => out = Counted("none", n)
           /\ op = "iter_multipath_pair" =>
                 /\ out.exc = "none"
                 /\ Len(out.yields) = n
                 /\ \A i \in 1..n :
                        out.yields[i] = <<wildcard_prefix \o bracketed(int_text(i - 1)),
                                          element(wildcard_node, i)>>

\* C8 witness: the wildcard was iterated over a list of at least two
\* elements reached through a key.
C8_Witness ==
    /\ op = "iter_multipath_pair"
    /\ inp.path = <<"a", "[", "]">>
    /\ wildcard_node[1] = "TagList"
    /\ Len(wildcard_node[2]) >= 2
    /\ Len(out.yields) >= 2

\* The path k[i].k2
indexed_key_path(k, i, k2) == k \o bracketed(int_text(i)) \o <<".">> \o k2

\* C9: for a compound holding key k mapped to a list of length n and
\* -n <= i < n, at_path with k[i] followed by a further key resolves inside
\* the element at position i when i >= 0 and n + i when i < 0, and returns
\* the tag found there.
C9_IndexThenKey ==
    \A i \in (0 - MaxListLen - 1)..MaxListLen, k2 \in {<<"a">>, <<"b">>} :
        (/\ op = "at_path"
         /\ inp.tree[1] = "TagCompound" /\ has_key(inp.tree, <<"a">>)
         /\ get_key(inp.tree, <<"a">>)[1] = "TagList"
         /\ 0 - Len(get_key(inp.tree, <<"a">>)[2]) <= i
         /\ i < Len(get_key(inp.tree, <<"a">>)[2])
         /\ inp.path = indexed_key_path(<<"a">>, i, k2)) =>
            LET list == get_key(inp.tree, <<"a">>)[2]
                at == list[IF i >= 0 THEN i + 1 ELSE Len(list) + i + 1]
            IN (at[1] = "TagCompound" /\ has_key(at, k2)) =>
                   out = Found("none", get_key(at, k2))

\* C9 witness: a[-1].b was resolved in the last element of a list of two
\* compounds of which only the last holds b.
C9_Witness ==
    /\ op = "at_path"
    /\ inp.path = indexed_key_path(<<"a">>, -1, <<"b">>)
    /\ inp.tree[1] = "TagCompound"
    /\ get_key(inp.tree, <<"a">>)[1] = "TagList"
    /\ Len(get_key(inp.tree, <<"a">>)[2]) = 2
    /\ get_key(inp.tree, <<"a">>)[2][1][1] = "TagCompound"
    /\ ~has_key(get_key(inp.tree, <<"a">>)[2][1], <<"b">>)
    /\ out = Found("none", Tag("TagInt", 2))

\* ------------------------------------------------------------------------
\* Mojangson text of a tree, and parsing it back
\* ------------------------------------------------------------------------

MojangsonValues ==
    {Tag("TagInt", 1), Tag("TagByte", -1), Tag("TagDouble", <<15, -1>>),
     Tag("TagString", <<>>), Tag("TagString", <<"a">>),
     Tag("TagString", <<"a", "\n", "b">>), Tag("TagString", <<"'">>),
     Tag("TagIntArray", <<1>>), Tag("TagList", <<>>),
     Tag("TagList", <<Tag("TagInt", 1)>>), Tag("TagCompound", <<>>)}

\* Compounds of up to two keys; the key 'a b' needs quoting.
MojangsonTrees ==
    {Tag("TagCompound", <<>>)}
      \cup {Tag("TagCompound", <<Entry(k, v)>>) :
              k \in {<<"a">>, <<"a", " ", "b">>}, v \in MojangsonValues}
      \cup {Tag("TagCompound", <<Entry(<<"a">>, v), Entry(<<"a", " ", "b">>, w)>>) :
              v \in MojangsonValues, w \in MojangsonValues}

\* Some string of the tree has as many ' as " (and at least one).
RECURSIVE quote_tie(_)
quote_tie(tag) ==
    CASE tag[1] = "TagString" ->
           count_char(tag[2], "'") = count_char(tag[2], "\"") /\ count_char(tag[2], "'") > 0
      [] tag[1] = "TagList" -> \E i \in 1..Len(tag[2]) : quote_tie(tag[2][i])
      [] tag[1] \in CompoundKinds -> \E i \in 1..Len(tag[2]) : quote_tie(tag[2][i].tag)
      [] OTHER -> FALSE

MojangsonInit ==
    /\ RegionInit
    /\ inp \in MojangsonTrees \cup MojangsonValues
    /\ op = "none"
    /\ out = "none"

CallToMojangson ==
    /\ op = "none"
    /\ op' = "to_mojangson"
    /\ out' = to_mojangson(inp)
    /\ UNCHANGED <<inp, locations, timestamps, data, file_size, clock, saved, last, writers>>

\* TagCompound.from_mojangson(t.to_mojangson())
CallFromMojangson ==
    /\ op = "none"
    /\ inp[1] = "TagCompound"
    /\ op' = "from_mojangson"
    /\ out' = With(to_mojangson(inp), LAMBDA text :
                IF text.exc # "none" THEN Found(text.exc, NoTag)
                ELSE With(from_mojangson(text.text, 0), LAMBDA parsed :
                       Found(parsed.exc, parsed.value)))
    /\ UNCHANGED <<inp, locations, timestamps, data, file_size, clock, saved, last, writers>>

MojangsonNext == CallToMojangson \/ CallFromMojangson

SpecMojangson == MojangsonInit /\ [][MojangsonNext]_vars

\* C11: for every compound tree t whose strings have no tie in the choice
\* of quote character, TagCompound.from_mojangson(t.to_mojangson()) returns
\* a tree equal to t.
C11_MojangsonRoundTrip ==
    (op = "from_mojangson" /\ ~quote_tie(inp)) =>
        (out.exc = "none" /\ tag_eq(out.tag, inp))

\* ------------------------------------------------------------------------
\* TagCompound.update
\* ------------------------------------------------------------------------
\* inp holds the compound that update mutates.

UpdateKeys == {<<"a">>, <<"b">>}

UpdateValues ==
    {Tag("TagInt", 1), Tag("TagList", <<>>), Tag("TagCompound", <<>>),
     Tag("TagCompound", <<Entry(<<"a">>, Tag("TagInt", 1))>>)}

\* The incoming values: None asks for the key's deletion.
IncomingValues ==
    {Tag("TagInt", 1), Tag("TagList", <<>>), Tag("TagIntArray", <<>>),
     Tag("TagCompound", <<Entry(<<"b">>, Tag("TagInt", 1))>>),
     Tag("None", 0), Tag("TagCompound", <<Entry(<<"a">>, Tag("None", 0))>>)}

\* Compounds of up to two keys over UpdateKeys.
UpdateCompounds(values) ==
    {Tag("TagCompound", <<>>)}
      \cup {Tag("TagCompound", <<Entry(k, v)>>) : k \in UpdateKeys, v \in values}
      \cup {Tag("TagCompound", <<Entry(<<"a">>, v), Entry(<<"b">>, w)>>) :
              v \in values, w \in values}

UpdateInit ==
    /\ RegionInit
    /\ inp \in UpdateCompounds(UpdateValues)
    /\ op = "none"
    /\ out = "none"

CallUpdate ==
    \E other \in UpdateCompounds(IncomingValues) :
        /\ op' = "update"
        /\ inp' = update(inp, other)
        /\ out' = [self |-> inp, other |-> other]
        /\ UNCHANGED <<locations, timestamps, data, file_size, clock, saved, last, writers>>

UpdateNext == CallUpdate

SpecUpdate == UpdateInit /\ [][UpdateNext]_vars

\* C12: after self.update(other), for every key k of other: if other[k] is
\* None, k is no key of self; if self[k] and other[k] were both compounds,
\* self[k] is their recursive merge; otherwise self[k] is other[k].
C12_UpdatePerKey ==
    op = "update" =>
        \A i \in 1..Len(out.other[2]) :
            LET k == out.other[2][i].name
                new_tag == out.other[2][i].tag
                old_tag == get_or_none(out.self, k)
            IN IF new_tag = Tag("None", 0) THEN ~has_key(inp, k)
               ELSE /\ has_key(inp, k)
                    /\ get_key(inp, k) =
                         IF old_tag[1] \in CompoundKinds /\ new_tag[1] \in CompoundKinds
                         THEN update(old_tag, new_tag)
                         ELSE new_tag

\* C13: starting from a compound with no key mapped to None, after any
\* sequence of update calls the compound has no key mapped to None.
C13_NoNullValue == \A i \in 1..Len(inp[2]) : inp[2][i].tag # Tag("None", 0)

\* The list or array that the path's index segment is applied to: the
\* tree itself for the path [i], the value of key a for the path a[i].
index_node(i) ==
    IF inp.path = bracketed(int_text(i)) THEN inp.tree
    ELSE IF /\ inp.path = <<"a">> \o bracketed(int_text(i))
            /\ inp.tree[1] = "TagCompound" /\ has_key(inp.tree, <<"a">>)
    THEN get_key(inp.tree, <<"a">>)
    ELSE NoTag

\* C15: for a list or array of length n and a path segment [i] with i < -n
\* or i >= n, has_path returns False, count_multipath returns 0,
\* iter_multipath_pair yields nothing and at_path raises.
C15_IndexOutOfRange ==
    \A i \in (0 - MaxListLen - 1)..MaxListLen :
        (/\ index_node(i)[1] \in ArrayKinds \cup {"TagList"}
         /\ out_of_range(Len(index_node(i)[2]), i)) =>
            /\ op = "has_path" => out = Has("none", FALSE)
            /\ op = "count_multipath" => out = Counted("none", 0)
            /\ op = "iter_multipath_pair" => out = Yielded("none", <<>>)
            /\ op = "at_path" => out.exc # "none"

\* The value of key a in the tree, or None.
under_a ==
    IF inp.tree[1] = "TagCompound" /\ has_key(inp.tree, <<"a">>)
    THEN get_key(inp.tree, <<"a">>) ELSE NoTag

\* a.k
key_below_path == {<<"a", ".">> \o k : k \in {<<"a">>, <<"b">>}}

\* a[i]
index_below_path == {<<"a">> \o s : s \in IndexSegments}

\* a[i].k
below_element_path == {<<"a">> \o s \o <<".">> \o k : s \in IndexSegments, k \in {<<"a">>, <<"b">>}}

key_below_scalar == under_a[1] \in DataKinds \cup {"TagString"} /\ inp.path \in key_below_path

index_below_scalar == under_a[1] \in DataKinds \cup {"TagString"} /\ inp.path \in index_below_path

key_on_list_or_array == under_a[1] \in ArrayKinds \cup {"TagList"} /\ inp.path \in key_below_path

index_on_compound == inp.tree[1] = "TagCompound" /\ inp.path \in IndexSegments

below_array_element == under_a[1] \in ArrayKinds /\ inp.path \in below_element_path

finds_nothing ==
    /\ op = "has_path" => out = Has("none", FALSE)
    /\ op = "count_multipath" => out = Counted("none", 0)
    /\ op = "iter_multipath_pair" => out = Yielded("none", <<>>)

\* C16: for a well-formed path whose next segment does not fit the variant
\* of the node reached (a key or an index below a scalar or string, a key
\* on a list or array, an index on a compound, a continuation below an
\* array element), has_path returns False, count_multipath returns 0 and
\* iter_multipath_pair yields nothing, and none of them raises.
C16_MisfitFindsNothing ==
    (\/ key_below_scalar \/ index_below_scalar \/ key_on_list_or_array
     \/ index_on_compound \/ below_array_element) => finds_nothing

\* The compound that the path's qualifying {} is applied to: the tree
\* itself for the path {...}, the value of key a for the path a{...}.
match_node(m) ==
    IF inp.path = m THEN inp.tree
    ELSE IF inp.path = <<"a">> \o m THEN under_a
    ELSE NoTag

\* C17: at a compound node a segment {...}, first in the path or directly
\* after a key, is parsed as a compound and the query goes on below the
\* node only if the pattern is a structural subset of it; when it is not,
\* has_path returns False, count_multipath returns 0, iter_multipath_pair
\* yields nothing and at_path raises a lookup error.
C17_PatternMustMatch ==
    \A m \in MatchSegments :
        match_node(m)[1] = "TagCompound" =>
            IF is_subset(from_mojangson(m, 0).value, match_node(m))
            THEN /\ op = "has_path" => out = Has("none", TRUE)
                 /\ op = "count_multipath" => out = Counted("none", 1)
                 /\ op = "iter_multipath_pair" =>
                        (out.exc = "none" /\ Len(out.yields) = 1
                         /\ out.yields[1][2] = match_node(m))
                 /\ op = "at_path" => out = Found("none", match_node(m))
            ELSE /\ finds_nothing
                 /\ op = "at_path" => out.exc \in {"KeyError", "IndexError", "LookupError"}

\* ------------------------------------------------------------------------
\* The reader's scanning methods on their own
\* ------------------------------------------------------------------------
\* inp is the reader before the call: its string and its cursor.

ReaderTokens ==
    {<<>>,
     <<"t", "r", "u", "e">>,
     <<"f", "a", "l", "s", "e">>,
     <<"t", "r", "u">>,
     <<"t", "r", "u", "e", "l", "y">>,
     <<"\"", "t", "r", "u", "e", "\"">>,
     <<"'", "f", "a", "l", "s", "e", "'">>,
     <<"\"", "\"">>,
     <<"\"", "a", "\\", "x", "\"">>,
     <<"\"", "a", "b", "c">>,
     <<"x">>,
     <<"1">>,
     <<"-", "1">>,
     <<"0", "0", "7">>,
     <<"-", "0">>,
     <<"1", ".", "5">>,
     <<"-", "-">>,
     <<"-">>,
     <<".">>,
     <<"1", ".">>,
     <<".", "5">>,
     <<"1", "-", "2">>,
     <<"1", ".", "2", ".", "3">>,
     <<"1", "2", "b">>,
     <<"2", "1", "4", "7", "4", "8", "3", "6", "4", "7">>,
     <<"2", "1", "4", "7", "4", "8", "3", "6", "4", "8">>,
     <<"-", "2", "1", "4", "7", "4", "8", "3", "6", "4", "8">>,
     <<"-", "2", "1", "4", "7", "4", "8", "3", "6", "4", "9">>,
     <<"9", "2", "2", "3", "3", "7", "2", "0", "3", "6", "8", "5", "4", "7", "7", "5", "8", "0", "7">>,
     <<"9", "2", "2", "3", "3", "7", "2", "0", "3", "6", "8", "5", "4", "7", "7", "5", "8", "0", "8">>,
     <<"-", "9", "2", "2", "3", "3", "7", "2", "0", "3", "6", "8", "5", "4", "7", "7", "5", "8", "0", "8">>,
     <<"-", "9", "2", "2", "3", "3", "7", "2", "0", "3", "6", "8", "5", "4", "7", "7", "5", "8", "0", "9">>,
     <<"3", "4", "0", "2", "8", "2", "3", "6", "6", "9", "2", "0", "9", "3", "8", "4", "6", "3", "4", "6", "3", "3", "7", "4", "6", "0", "7", "4", "3", "1", "7", "6", "8", "2", "1", "1", "4", "5", "6">>,
     <<"4", "0", "0", "0", "0", "0", "0", "0", "0", "0", "0", "0", "0", "0", "0", "0", "0", "0", "0", "0", "0", "0", "0", "0", "0", "0", "0", "0", "0", "0", "0", "0", "0", "0", "0", "0", "0", "0", "0">>,
     <<"-", "1", "1", "1", "1", "1", "1", "1", "1", "1", "1", "1", "1", "1", "1", "1", "1", "1", "1", "1", "1", "1", "1", "1", "1", "1", "1", "1", "1", "1", "1", "1", "1", "1", "1", "1", "1", "1", "1", "1">>,
     <<"9", "9", "9", "9", "9", "9", "9", "9", "9", "9", "9", "9", "9", "9", "9", "9", "9", "9", "9", "9", "9", "9", "9", "9", "9", "9", "9", "9", "9", "9", "9", "9", "9", "9", "9", "9", "9", "9">>}

ReaderPrefixes == {<<>>, <<"a", ":">>}

ReaderSuffixes == {<<>>, <<",", "1">>}

ReaderInit ==
    /\ RegionInit
    /\ inp \in {[str |-> before \o token \o after, cursor |-> Len(before)] :
                  before \in ReaderPrefixes, token \in ReaderTokens, after \in ReaderSuffixes}
    /\ op = "none"
    /\ out = "none"

CallReadInt ==
    /\ op = "none"
    /\ op' = "readInt"
    /\ out' = readInt(inp.str, inp.cursor)
    /\ UNCHANGED <<inp, locations, timestamps, data, file_size, clock, saved, last, writers>>

CallReadLong ==
    /\ op = "none"
    /\ op' = "readLong"
    /\ out' = readLong(inp.str, inp.cursor)
    /\ UNCHANGED <<inp, locations, timestamps, data, file_size, clock, saved, last, writers>>

CallReadDouble ==
    /\ op = "none"
    /\ op' = "readDouble"
    /\ out' = readDouble(inp.str, inp.cursor)
    /\ UNCHANGED <<inp, locations, timestamps, data, file_size, clock, saved, last, writers>>

CallReadFloat ==
    /\ op = "none"
    /\ op' = "readFloat"
    /\ out' = readFloat(inp.str, inp.cursor)
    /\ UNCHANGED <<inp, locations, timestamps, data, file_size, clock, saved, last, writers>>

CallReadBoolean ==
    /\ op = "none"
    /\ op' = "readBoolean"
    /\ out' = readBoolean(inp.str, inp.cursor)
    /\ UNCHANGED <<inp, locations, timestamps, data, file_size, clock, saved, last, writers>>

ReaderNext ==
    CallReadInt \/ CallReadLong \/ CallReadDouble \/ CallReadFloat \/ CallReadBoolean

SpecReader == ReaderInit /\ [][ReaderNext]_vars

\* C22: readBoolean returns True for the token true and False for the token
\* false; for every other input it raises SyntaxError and the cursor is
\* where it was before the call.
C22_ReadBoolean ==
    op = "readBoolean" =>
        With(readString(inp.str, inp.cursor), LAMBDA token :
          IF token.exc = "none" /\ token.value = <<"t", "r", "u", "e">>
          THEN out.exc = "none" /\ out.value = TRUE
          ELSE IF token.exc = "none" /\ token.value = <<"f", "a", "l", "s", "e">>
          THEN out.exc = "none" /\ out.value = FALSE
          ELSE out.exc = "SyntaxError" /\ out.cursor = inp.cursor)

\* A token that is neither true nor false and has the cursor put back.
C22_CursorPutBack ==
    /\ op = "readBoolean" /\ out.exc = "SyntaxError"
    /\ out.cursor = inp.cursor
    /\ readString(inp.str, inp.cursor).cursor > inp.cursor

\* The run of number characters at the cursor of inp.
number_run ==
    slice(inp.str, inp.cursor, skip_while(inp.str, inp.cursor, isAllowedNumber))

\* run is an optional minus sign and digits.
integer_text(run) ==
    all_digits(IF run # <<>> /\ Head(run) = "-" THEN Tail(run) ELSE run)

\* The value of such a run lies in [-limit, limit - 1], limit in digits.
integer_within(run, limit) ==
    IF Head(run) = "-" THEN digits_le(strip_zeros(Tail(run)), limit)
    ELSE ~digits_le(limit, strip_zeros(run))

\* Such a run in its shortest form: no leading zeros, no sign on zero.
shortest_form(run) ==
    IF Head(run) = "-" /\ strip_zeros(Tail(run)) # <<"0">>
    THEN <<"-">> \o strip_zeros(Tail(run))
    ELSE strip_zeros(IF Head(run) = "-" THEN Tail(run) ELSE run)

\* str(value) of what readInt or readLong returned.
returned_text(value) ==
    IF op = "readLong" THEN (IF value.neg THEN <<"-">> ELSE <<>>) \o value.digits
    ELSE IF value = 0 - IntMax - 1 THEN <<"-">> \o IntLimitDigits
    ELSE int_text(value)

\* C23: readInt and readLong consume the longest run of characters from
\* 0-9, - and . at the cursor; an empty run raises SyntaxError; a run that
\* is an integer is returned as its base-10 value when the value lies in
\* [-2^31, 2^31 - 1] (readInt) or [-2^63, 2^63 - 1] (readLong) and raises
\* ValueError otherwise; no value outside the range is ever returned.
C23_IntegerReaders ==
    op \in {"readInt", "readLong"} =>
        LET limit == IF op = "readInt" THEN IntLimitDigits ELSE LongLimitDigits
        IN /\ number_run = <<>> => out.exc = "SyntaxError"
           /\ (number_run # <<>> /\ integer_text(number_run)) =>
                  IF integer_within(number_run, limit)
                  THEN /\ out.exc = "none"
                       /\ out.cursor = inp.cursor + Len(number_run)
                       /\ returned_text(out.value) = shortest_form(number_run)
                  ELSE out.exc = "ValueError"
           /\ out.exc = "none" =>
                  integer_text(number_run) /\ integer_within(number_run, limit)

\* readLong was given a run whose value is 2^63 or more and raised.
C23_LongOutOfRange ==
    /\ op = "readLong" /\ out.exc = "ValueError"
    /\ integer_text(number_run) /\ ~integer_within(number_run, LongLimitDigits)

\* C30: when readInt, readLong, readFloat or readDouble raises, the cursor
\* is where it was before the call.
C30_FailedScanKeepsCursor ==
    (op \in {"readInt", "readLong", "readFloat", "readDouble"} /\ out.exc # "none")
        => out.cursor = inp.cursor

\* readFloat raised on a run whose magnitude is 2^128 or more.
C30_FloatOutOfRange ==
    /\ op = "readFloat" /\ out.exc = "ValueError"
    /\ py_float(number_run).exc = "none"


\* ------------------------------------------------------------------------
\* The parser on arrays and lists
\* ------------------------------------------------------------------------
\* inp is an array or list as it is written: what opens it, its elements
\* (each the text of one value with the class that text stands for), and
\* what separates them.

ArrayElements ==
    {<<(<<"1">>), "TagInt">>, <<(<<"2", "b">>), "TagByte">>,
     <<(<<"t", "r", "u", "e">>), "TagByte">>, <<(<<"3", "L">>), "TagLong">>,
     <<(<<"1", ".", "5">>), "TagDouble">>, <<(<<"\"", "a", "\"">>), "TagString">>,
     <<(<<"[", "1", "]">>), "TagList">>, <<(<<"{", "}">>), "TagCompound">>}

ArrayOpenings == {<<"[">>, <<"[", "B", ";">>, <<"[", "I", ";">>, <<"[", "L", ";">>}

ArraySeparators == {<<",">>, <<",", " ">>}

ArrayInputs ==
    [opening : ArrayOpenings, separator : ArraySeparators,
     elements : UNION {[1..n -> ArrayElements] : n \in 1..MaxListLen}]

\* The text of elements i.. of the array a, separated and closed.
RECURSIVE array_text_from(_, _)
array_text_from(a, i) ==
    IF i > Len(a.elements) THEN <<"]">>
    ELSE a.elements[i][1]
         \o (IF i < Len(a.elements) THEN a.separator ELSE <<>>)
         \o array_text_from(a, i + 1)

array_text(a) == a.opening \o array_text_from(a, 1)

\* Where element i of the array a begins in array_text(a).
element_start(a, i) == Len(array_text(a)) - Len(array_text_from(a, i))

ArrayInit ==
    /\ RegionInit
    /\ inp \in ArrayInputs
    /\ op = "none"
    /\ out = "none"

CallParseArray ==
    /\ op = "none"
    /\ op' = "parse_array"
    /\ out' = parse_array(array_text(inp), 0)
    /\ UNCHANGED <<inp, locations, timestamps, data, file_size, clock, saved, last, writers>>

CallParseAnyTag ==
    /\ op = "none"
    /\ op' = "parse_any_tag"
    /\ out' = parse_any_tag(<<" ">> \o array_text(inp), 0)
    /\ UNCHANGED <<inp, locations, timestamps, data, file_size, clock, saved, last, writers>>

ArrayNext == CallParseArray \/ CallParseAnyTag

SpecArray == ArrayInit /\ [][ArrayNext]_vars

\* The class the elements of the array a must have: the declared one, or
\* that of the first element of a list.
required_type(a) ==
    CASE a.opening = <<"[", "B", ";">> -> "TagByte"
      [] a.opening = <<"[", "I", ";">> -> "TagInt"
      [] a.opening = <<"[", "L", ";">> -> "TagLong"
      [] OTHER -> a.elements[1][2]

offending_elements(a) ==
    {i \in 1..Len(a.elements) : a.elements[i][2] # required_type(a)}

first_offending(a) ==
    CHOOSE i \in offending_elements(a) : \A j \in offending_elements(a) : i <= j

\* C24: parsing a typed array or a list, the first element whose class is
\* not the required one makes the parse raise SyntaxError with the cursor
\* at the start of that element.
C24_MixedTypesAtElement ==
    (op \in {"parse_array", "parse_any_tag"} /\ offending_elements(inp) # {}) =>
        /\ out.exc = "SyntaxError"
        /\ out.cursor = (IF op = "parse_any_tag" THEN 1 ELSE 0)
                        + element_start(inp, first_offending(inp))

\* An offending element that is not the first of its array or list.
C24_LaterElementOffends ==
    /\ op = "parse_array" /\ out.exc = "SyntaxError"
    /\ offending_elements(inp) # {}
    /\ first_offending(inp) > 1


\* C27: every pair (sub-path, tag) that iter_multipath_pair(t, p) yields is
\* consistent with at_path: t.at_path(sub-path) returns that tag.
C27_YieldedPathLeadsToTag ==
    op = "iter_multipath_pair" =>
        \A k \in 1..Len(out.yields) :
            at_path(inp.tree, out.yields[k][1], 0) = Found("none", out.yields[k][2])

\* Two pairs were yielded and at_path finds the tag of each.
C27_PairsLeadToTags ==
    /\ op = "iter_multipath_pair" /\ Len(out.yields) >= 2
    /\ \A k \in 1..Len(out.yields) :
           at_path(inp.tree, out.yields[k][1], 0) = Found("none", out.yields[k][2])

\* C28: count_multipath(t, p) and iter_multipath_pair(t, p) agree: both
\* raise, or the count is the number of pairs yielded.
C28_CountIsNumberYielded ==
    op = "iter_multipath_pair" =>
        With(count_multipath(inp.tree, inp.path, 0), LAMBDA counted :
          IF out.exc # "none" THEN counted.exc # "none"
          ELSE counted = Counted("none", Len(out.yields)))

\* Two pairs were yielded and two counted.
C28_TwoCounted ==
    /\ op = "iter_multipath_pair" /\ out.exc = "none" /\ Len(out.yields) >= 2
    /\ count_multipath(inp.tree, inp.path, 0) = Counted("none", Len(out.yields))

\* C29: has_path(t, p) and count_multipath(t, p) agree: both raise, or
\* has_path returns True exactly when the count is greater than 0.
C29_HasPathIffCounted ==
    op = "has_path" =>
        With(count_multipath(inp.tree, inp.path, 0), LAMBDA counted :
          IF out.exc # "none" THEN counted.exc # "none"
          ELSE counted.exc = "none" /\ (out.held <=> counted.n > 0))

\* has_path returned True where something is counted.
C29_HeldAndCounted ==
    /\ op = "has_path" /\ out.exc = "none" /\ out.held
    /\ Len(inp.path) > 1
    /\ count_multipath(inp.tree, inp.path, 0).exc = "none"
    /\ count_multipath(inp.tree, inp.path, 0).n > 0

=============================================================================
